---- MODULE Spec2Model ----
(***************************************************************************)
(* Model of the conversation session orchestrator of slackbot-mcp-host:    *)
(* the session registry (internal/interfaces), the handler goroutine that  *)
(* runs one execution per accepted mention, and the recursive tool-calling *)
(* loop with its retry policy (internal/app/usecase.go).                   *)
(*                                                                         *)
(* Strings that the code takes apart (mention text, tool names) are        *)
(* sequences of one-character strings; the empty string is << >>.          *)
(* Durations are in milliseconds.                                          *)
(***************************************************************************)
EXTENDS Integers, Sequences, FiniteSets, TLC

(***************************************************************************)
(* Bounds of the model.                                                    *)
(***************************************************************************)
MaxEvents == 2          \* HTTP deliveries of mention events
MaxToolCalls == 2       \* tool calls requested by the model, over all executions
MaxFailingTurns == 1    \* loop iterations in which the provider fails under a live context
MaxRateLimited == 2     \* provider errors that signal rate limiting
MaxChatErrors == 1      \* chat calls that fail under a live context
MaxHangs == 1           \* chat calls that Slack never answers
MaxRejected == 1        \* deliveries refused for a failed user lookup or by the rate limiter
MaxParallelToolCalls == 1   \* tool calls the provider issues while two conversations run

Events == 1..MaxEvents

(***************************************************************************)
(* Small input sets.                                                       *)
(***************************************************************************)
Channels == {"C1"}
Stamps == {"1.1", "1.2"}
Users == {"U1"}
\* for the gateway: also a bot user and a user missing from the allow-list
GatewayUsers == {"U1", "B1", "X1"}
\* for the registry key: channel ids and timestamps that hold the separator of the key
KeyChannels == {"C1", "C1#1"}
KeyStamps == {"1.1", "1#1.1"}
\* mention texts: "@bot", "@bot hi", "@bot  ", "@bot \r" (the bot's id is one
\* character here)
Texts == { <<"@">>, <<"@", " ", "h", "i">>, <<"@", " ", " ">>, <<"@", " ", "\r">> }

fetch__get == <<"f","e","t","c","h","_","_","g","e","t">>
badname == <<"b","a","d","n","a","m","e">>
a__b__c == <<"a","_","_","b","_","_","c">>
nosrv__get == <<"n","o","_","_","g","e","t">>
ToolNames == {fetch__get, badname, a__b__c, nosrv__get}
\* argument maps: one that serializes, one holding a value json.Marshal rejects
ToolArguments == {"object", "unsupported"}
\* the tool calls the model may ask for
ToolRequests == (ToolNames \X {"object"}) \cup ({fetch__get} \X {"unsupported"})
\* the configured tool backends (keys of UseCase.mcpClients)
mcpClients == { <<"f","e","t","c","h">>, <<"a">> }
\* model text: empty or not
Contents == {"", "txt"}
\* what a backend call returns: an error, or a list of content items; an item is
\* a value of one of the struct types of package mcp, here mcp.TextContent
ToolOutcomes == { [err |-> TRUE, content |-> << >>],
                  [err |-> FALSE, content |-> << >>],
                  [err |-> FALSE,
                   content |-> << [dynamic |-> "mcp.TextContent", text |-> "r"] >>] }
\* marker substrings an error text of the provider may contain
ErrorMarks == {"overloaded_error", "rate_limit_error"}

(***************************************************************************)
(* Errors.                                                                 *)
(***************************************************************************)
Nil == [kind |-> "nil"]
ErrEmptyPrompt == [kind |-> "empty prompt"]
SlackError == [kind |-> "slack"]
ProviderError(marks) == [kind |-> "provider", marks |-> marks]
\* err.Error() contains substr
Contains(err, substr) == err.kind = "provider" /\ substr \in err.marks

VARIABLES
    rootCancelled,   \* the context of signal.NotifyContext in main is done
    sessions,        \* the registry: session key -> session (named by the event that made it)
    cancelled,       \* sessions whose cancel() has been called
    chat,            \* the messages posted to Slack; a message id (timestamp) is its index
    task,            \* per event: the request and the goroutine the handler starts for it
    budget           \* what is left of the bounds

vars == <<rootCancelled, sessions, cancelled, chat, task, budget>>

(***************************************************************************)
(* internal/interfaces/session.go                                          *)
(***************************************************************************)
\* mutant of sessionKey: the thread is left out of the key
sessionKeyPerChannel(channel, ts, user) == channel \o "#" \o user

sessionKey(channel, ts, user) == channel \o "#" \o ts \o "#" \o user

KeyOf(m) == sessionKey(m.Channel, m.TimeStamp, m.User)

\* session.cancel(), the CancelFunc of context.WithCancel(ctx) in newSession:
\* the sessions whose own context is cancelled after the call
cancel(c, s) == c \cup {s}

\* the conversation key of delivery e
Key(e) == KeyOf(task[e].mention)

\* ctx.Done() of a session made by newSession(rootCtx, user)
CtxDone(s) == rootCancelled \/ s \in cancelled

(***************************************************************************)
(* String helpers (package strings, unicode).  A string is the sequence   *)
(* of its bytes: an ASCII character stands for its byte, the vertical tab  *)
(* is written "\\v" and a byte above 0x7F "\\xHH", each one element of the  *)
(* sequence.                                                               *)
(***************************************************************************)
\* the white space runes of unicode.IsSpace, each as the sequence of its bytes:
\* '\t', '\n', '\v', '\f', '\r', ' ', U+0085, U+00A0 and the category Z (U+1680,
\* U+2000..U+200A, U+2028, U+2029, U+202F, U+205F, U+3000)
SpaceRunes ==
    {<<"\t">>, <<"\n">>, <<"\\v">>, <<"\f">>, <<"\r">>, <<" ">>,
     <<"\\xC2", "\\x85">>, <<"\\xC2", "\\xA0">>, <<"\\xE1", "\\x9A", "\\x80">>,
     <<"\\xE2", "\\x80", "\\x80">>, <<"\\xE2", "\\x80", "\\x81">>,
     <<"\\xE2", "\\x80", "\\x82">>, <<"\\xE2", "\\x80", "\\x83">>,
     <<"\\xE2", "\\x80", "\\x84">>, <<"\\xE2", "\\x80", "\\x85">>,
     <<"\\xE2", "\\x80", "\\x86">>, <<"\\xE2", "\\x80", "\\x87">>,
     <<"\\xE2", "\\x80", "\\x88">>, <<"\\xE2", "\\x80", "\\x89">>,
     <<"\\xE2", "\\x80", "\\x8A">>, <<"\\xE2", "\\x80", "\\xA8">>,
     <<"\\xE2", "\\x80", "\\xA9">>, <<"\\xE2", "\\x80", "\\xAF">>,
     <<"\\xE2", "\\x81", "\\x9F">>, <<"\\xE3", "\\x80", "\\x80">>}

\* a rune of one, two or three bytes written in one string
Spell(r) ==
    IF Len(r) = 1 THEN r[1]
    ELSE IF Len(r) = 2 THEN r[1] \o r[2]
    ELSE r[1] \o r[2] \o r[3]

\* unicode.IsSpace on a rune written in one string
IsSpace(c) == \E r \in SpaceRunes : c = Spell(r)

\* the widths w for which the w bytes of s from position i are the bytes of a white
\* space rune (the encoding of such a rune has one, two or three bytes)
SpaceAt(s, i) ==
    {w \in 1..3 : i >= 1 /\ i + w - 1 <= Len(s) /\ SubSeq(s, i, i + w - 1) \in SpaceRunes}

\* strings.IndexFunc(s, unicode.IsSpace): the byte index (from 0) of the first
\* white space rune, or -1
IndexFunc(s) ==
    LET hits == {i \in 1..Len(s) : SpaceAt(s, i) # {}}
    IN IF hits = {} THEN -1 ELSE (CHOOSE i \in hits : \A j \in hits : i <= j) - 1

RECURSIVE TrimLeftFunc(_)
\* strings.TrimLeftFunc(s, unicode.IsSpace)
TrimLeftFunc(s) ==
    IF SpaceAt(s, 1) = {} THEN s
    ELSE TrimLeftFunc(SubSeq(s, 1 + (CHOOSE w \in SpaceAt(s, 1) : TRUE), Len(s)))

\* the widths w for which the last w bytes of s are a white space rune
SpaceAtEnd(s) == {w \in 1..3 : SpaceAt(s, Len(s) - w + 1) \cap {w} # {}}

RECURSIVE TrimRightFunc(_)
\* strings.TrimRightFunc(s, unicode.IsSpace)
TrimRightFunc(s) ==
    IF SpaceAtEnd(s) = {} THEN s
    ELSE TrimRightFunc(SubSeq(s, 1, Len(s) - (CHOOSE w \in SpaceAtEnd(s) : TRUE)))

\* strings.TrimFunc(s, unicode.IsSpace)
TrimFunc(s) == TrimRightFunc(TrimLeftFunc(s))

\* strings.Index(s, sep): 1-based position of the first occurrence of sep, or 0
Index(s, sep) ==
    LET hits == {i \in 1..(Len(s) - Len(sep) + 1) : SubSeq(s, i, i + Len(sep) - 1) = sep}
    IN IF hits = {} THEN 0 ELSE CHOOSE i \in hits : \A j \in hits : i <= j

\* mutant of Split: strings.SplitN(s, sep, 2), which cuts at the first separator only
SplitAtFirst(s, sep) ==
    LET i == Index(s, sep)
    IN IF i = 0 THEN <<s>>
       ELSE << SubSeq(s, 1, i - 1), SubSeq(s, i + Len(sep), Len(s)) >>

RECURSIVE Split(_, _)
\* strings.Split(s, sep) for a non-empty sep
Split(s, sep) ==
    LET i == Index(s, sep)
    IN IF i = 0 THEN <<s>>
       ELSE <<SubSeq(s, 1, i - 1)>> \o Split(SubSeq(s, i + Len(sep), Len(s)), sep)

(***************************************************************************)
(* The handler's prompt (handler.go, promptFromMention).                   *)
(***************************************************************************)
promptFromMention(text) ==
    LET index == IndexFunc(text)
    IN IF index = -1 \/ index + 1 >= Len(text) THEN << >>
       ELSE LET prompt == SubSeq(text, index + 2, Len(text))
            IN IF TrimFunc(prompt) = << >> THEN << >> ELSE prompt

(***************************************************************************)
(* History content blocks (history.ContentBlock) and messages.             *)
(***************************************************************************)
TextBlock(text) == [Type |-> "text", Text |-> text]
ToolUseBlock(id, name, input) ==
    [Type |-> "tool_use", ID |-> id, Name |-> name, Input |-> input]
ToolResultBlock(id, content, text) ==
    [Type |-> "tool_result", ToolUseID |-> id, Content |-> content, Text |-> text]
HistoryMessage(role, content) == [Role |-> role, Content |-> content]

(***************************************************************************)
(* JSON of tool arguments (goccy/go-json): Marshal fails on a value it     *)
(* cannot encode; Unmarshal into a map accepts what Marshal wrote.         *)
(***************************************************************************)
jsonMarshal(args) ==
    IF args = "unsupported" THEN [err |-> TRUE, bytes |-> << >>]
    ELSE [err |-> FALSE, bytes |-> <<"{", args, "}">>]

jsonUnmarshal(bytes) ==
    IF Len(bytes) = 3 /\ bytes[1] = "{" /\ bytes[3] = "}"
    THEN [err |-> FALSE, value |-> bytes[2]]
    ELSE [err |-> TRUE, value |-> "nil"]

(***************************************************************************)
(* UseCase.handleToolCall (usecase.go 211-307).  outcome is what the       *)
(* backend's CallTool answers if it is called.  The result also says       *)
(* whether the backend was called.                                         *)
(***************************************************************************)
ToolDelimiter == <<"_", "_">>

\* lines 293-303: the text entries of the content items whose dynamic type is
\* map[string]any (the assertion of line 297), joined and trimmed; an item of a
\* struct type fails the assertion and adds nothing
ResultText(content) ==
    LET withText == SelectSeq(content, LAMBDA item : /\ item.dynamic = "map[string]any"
                                                      /\ "text" \in DOMAIN item)
    IN [k \in 1..Len(withText) |-> withText[k].text]

\* mutant of handleToolCall: a backend error is only logged, no tool_result is made
handleToolCallDropsError(toolCall, outcome) ==
    LET input == jsonMarshal(toolCall.args)
        use == << ToolUseBlock(toolCall.id, toolCall.name, input.bytes) >>
        parts == Split(toolCall.name, ToolDelimiter)
        none == << >>
        skipped == input.err \/ Len(parts) # 2 \/ parts[1] \notin mcpClients
                     \/ jsonUnmarshal(input.bytes).err
    IN [messageContent |-> IF input.err THEN none ELSE use,
        toolResults |-> IF skipped \/ outcome.err \/ Len(outcome.content) = 0 THEN none
                        ELSE << ToolResultBlock(toolCall.id, outcome.content,
                                                ResultText(outcome.content)) >>,
        called |-> ~skipped]

\* mutant of handleToolCall: a tool_result is made for empty content as well
handleToolCallEmitsEmpty(toolCall, outcome) ==
    LET input == jsonMarshal(toolCall.args)
        use == << ToolUseBlock(toolCall.id, toolCall.name, input.bytes) >>
        parts == Split(toolCall.name, ToolDelimiter)
        none == << >>
    IN IF input.err
       THEN [messageContent |-> none, toolResults |-> none, called |-> FALSE]
       ELSE IF Len(parts) # 2
       THEN [messageContent |-> use, toolResults |-> none, called |-> FALSE]
       ELSE IF parts[1] \notin mcpClients
       THEN [messageContent |-> use, toolResults |-> none, called |-> FALSE]
       ELSE IF jsonUnmarshal(input.bytes).err
       THEN [messageContent |-> use, toolResults |-> none, called |-> FALSE]
       ELSE IF outcome.err
       THEN [messageContent |-> use,
             toolResults |-> << ToolResultBlock(toolCall.id,
                                   << TextBlock(<<"Error calling tool", parts[2], "backend error">>) >>,
                                   << >>) >>,
             called |-> TRUE]
       ELSE [messageContent |-> use,
             toolResults |-> << ToolResultBlock(toolCall.id, outcome.content,
                                                ResultText(outcome.content)) >>,
             called |-> TRUE]

\* UseCase.handleToolCall (usecase.go 211-307): the blocks it returns, and whether
\* the backend was called
handleToolCall(toolCall, outcome) ==
    LET input == jsonMarshal(toolCall.args)
        use == << ToolUseBlock(toolCall.id, toolCall.name, input.bytes) >>
        parts == Split(toolCall.name, ToolDelimiter)
        none == << >>
    IN IF input.err
       THEN [messageContent |-> none, toolResults |-> none, called |-> FALSE]
       ELSE IF Len(parts) # 2
       THEN [messageContent |-> use, toolResults |-> none, called |-> FALSE]
       ELSE IF parts[1] \notin mcpClients
       THEN [messageContent |-> use, toolResults |-> none, called |-> FALSE]
       ELSE IF jsonUnmarshal(input.bytes).err
       THEN [messageContent |-> use, toolResults |-> none, called |-> FALSE]
       ELSE IF outcome.err
       THEN [messageContent |-> use,
             toolResults |-> << ToolResultBlock(toolCall.id,
                                   << TextBlock(<<"Error calling tool", parts[2], "backend error">>) >>,
                                   << >>) >>,
             called |-> TRUE]
       ELSE IF Len(outcome.content) # 0
       THEN [messageContent |-> use,
             toolResults |-> << ToolResultBlock(toolCall.id, outcome.content,
                                                ResultText(outcome.content)) >>,
             called |-> TRUE]
       ELSE [messageContent |-> use, toolResults |-> none, called |-> TRUE]

(***************************************************************************)
(* The retry policy: retry.Do of avast/retry-go as configured in           *)
(* usecase.go 103-130 (Attempts(5), RetryIf, DelayType; the library's      *)
(* default delay of 100ms, no MaxDelay, LastErrorOnly off).                *)
(***************************************************************************)
\* mutant of Attempts: one attempt fewer
AttemptsFewer == 5 - 1

Attempts == 5
DefaultDelay == 100
durationForLLMRateLimitExceeded == 90000

RECURSIVE Pow2(_)
Pow2(n) == IF n = 0 THEN 1 ELSE 2 * Pow2(n - 1)

\* retry.BackOffDelay(n, err, config): config.delay << n
BackOffDelay(n) == DefaultDelay * Pow2(n)

\* mutant of RetryIf: every error is retried
RetryIfAlways(err) == TRUE

\* usecase.go 117-119
RetryIf(err) == Contains(err, "overloaded_error")

\* usecase.go 122: the error signals rate limiting
IsRateLimit(err) == err # Nil /\ Contains(err, "rate_limit_error")

\* usecase.go 120-129: the delay the custom DelayType returns
DelayType(n, err) ==
    LET duration == BackOffDelay(n)
    IN IF IsRateLimit(err) /\ duration < durationForLLMRateLimitExceeded
       THEN durationForLLMRateLimitExceeded
       ELSE duration

\* mutant of RetryError: only the last error is returned (retry.LastErrorOnly)
LastErrorOnly(errorLog) ==
    LET made == {k \in DOMAIN errorLog : errorLog[k] # Nil}
    IN errorLog[CHOOSE k \in made : \A j \in made : j <= k]

\* retry.Error: one slot per attempt, nil where no attempt was made
EmptyErrorLog == [k \in 1..Attempts |-> Nil]
RetryError(errorLog) == [kind |-> "retry.Error", errs |-> errorLog]

(***************************************************************************)
(* The Slack client (SlackClient of usecase.go 26-30).  A message id is    *)
(* the index of the message in chat; 0 is the empty id "".                 *)
(***************************************************************************)
Thinking == <<"Thinking...">>
FailureGlyph == <<"failure glyph">>
WaitingMessage(duration) == <<"Rate limit exceeded. waiting for", duration>>

\* fmt.Sprintf("<@%s> \n%s", user, message)
Formatted(user, body) == [mention |-> user, body |-> body]

\* the answers a chat call can get: none but failure once the context is done.
\* A call made under context.WithTimeout(ctx, u.timeoutNs) that is never answered
\* fails when the timeout is over, which is one of the failures here.
ChatOutcomes(s) ==
    IF CtxDone(s) THEN {FALSE}
    ELSE IF budget.chat > 0 THEN {TRUE, FALSE} ELSE {TRUE}

ChatSpent(s, ok) == IF ~ok /\ ~CtxDone(s) THEN 1 ELSE 0

\* mutant of postMessage: the error of Slack is not handed back
postMessageNoError(c, user, channel, body, threadTs, ok) ==
    IF ok
    THEN [chat |-> Append(c, [channel |-> channel, thread |-> threadTs,
                              text |-> Formatted(user, body), deleted |-> FALSE]),
          v |-> Len(c) + 1, err |-> Nil]
    ELSE [chat |-> c, v |-> 0, err |-> Nil]

\* UseCase.postMessage (usecase.go 183-194): the new chat, the id, the error
postMessage(c, user, channel, body, threadTs, ok) ==
    IF ok
    THEN [chat |-> Append(c, [channel |-> channel, thread |-> threadTs,
                              text |-> Formatted(user, body), deleted |-> FALSE]),
          v |-> Len(c) + 1, err |-> Nil]
    ELSE [chat |-> c, v |-> 0, err |-> SlackError]

\* UseCase.updateMessage (usecase.go 197-208); Slack rejects an id it does not know
updateMessage(c, user, channel, messageID, body, ok) ==
    IF ok /\ messageID \in 1..Len(c) /\ ~c[messageID].deleted
    THEN [chat |-> [c EXCEPT ![messageID].text = Formatted(user, body)],
          v |-> messageID, err |-> Nil]
    ELSE [chat |-> c, v |-> 0, err |-> SlackError]

\* SlackClient.DeleteMessageContext as called at usecase.go 151
DeleteMessageContext(c, messageID, ok) ==
    IF ok /\ messageID \in 1..Len(c)
    THEN [c EXCEPT ![messageID].deleted = TRUE]
    ELSE c

(***************************************************************************)
(* The model provider (llm.Provider.CreateMessage): its possible answers.  *)
(***************************************************************************)
NoMessage == [role |-> "", content |-> "", toolCalls |-> << >>]

\* the tool calls of one response: ids are fresh, base counts those given before
ToolCallSeqs(base, left) ==
    UNION { { [k \in 1..len |-> [id |-> base + k, name |-> f[k][1], args |-> f[k][2]]] :
                f \in [1..len -> ToolRequests] } : len \in 0..left }

\* under a done context the call fails with the context's error, which has no marker
ProviderOutcomes(s, n) ==
    IF CtxDone(s) THEN { [ok |-> FALSE, err |-> ProviderError({})] }
    ELSE { [ok |-> TRUE,
            message |-> [role |-> "assistant", content |-> c, toolCalls |-> tcs]] :
              c \in Contents,
              tcs \in ToolCallSeqs(budget.issued, budget.tools) }
         \cup (IF budget.turns > 0 \/ n > 0
               THEN { [ok |-> FALSE, err |-> ProviderError(marks)] : marks \in { mk \in SUBSET ErrorMarks :
                        "rate_limit_error" \in mk => budget.limited > 0 } }
               ELSE {})

\* a backend call fails once the context is done
BackendOutcomes(s) ==
    IF CtxDone(s) THEN { o \in ToolOutcomes : o.err } ELSE ToolOutcomes

\* the mention events that may be delivered
Mentions(channels, stamps, users) ==
    [Channel : channels, TimeStamp : stamps, User : users, Text : Texts]

(***************************************************************************)
(* Initial state: nothing delivered, no session, no message.               *)
(***************************************************************************)
NoMention == [Channel |-> "", TimeStamp |-> "", User |-> "", Text |-> << >>]
NoCall == [op |-> "none", id |-> 0, body |-> << >>, ok |-> TRUE]

\* the locals of one call of UseCase.execute
FreshLocals ==
    [messageID |-> 0, n |-> 0, errorLog |-> EmptyErrorLog, delay |-> 0,
     message |-> NoMessage, messageContents |-> << >>, toolResults |-> << >>, i |-> 0,
     \* observed, not read by the loop:
     placeholder |-> 0,   \* the id the post of this iteration returned
     llmCalls |-> 0]      \* CreateMessage calls of this iteration, until its text is shown

InitTask ==
    [pc |-> "none", mention |-> NoMention, httpError |-> 0, status |-> 0, noRetry |-> FALSE,
     session |-> 0,
     prompt |-> << >>, messages |-> << >>, ret |-> Nil, depth |-> 0,
     loc |-> FreshLocals,
     \* observed, not read by the code:
     posts |-> 0,         \* chat posts of this execution
     backendCalls |-> 0,  \* CallTool calls of this execution
     got |-> << >>,       \* the content the latest CallTool call returned
     last |-> NoCall]     \* the latest call to a collaborator

Init ==
    /\ rootCancelled = FALSE
    /\ sessions = [k \in {} |-> 0]
    /\ cancelled = {}
    /\ chat = << >>
    /\ task = [e \in Events |-> InitTask]
    /\ budget = [stamps |-> {"1.1"}, tools |-> MaxToolCalls, issued |-> 0,
                 turns |-> MaxFailingTurns, limited |-> MaxRateLimited,
                 chat |-> MaxChatErrors, hang |-> MaxHangs,
                 users |-> Users, channels |-> Channels, rejects |-> 0]

(***************************************************************************)
(* The registry: sync.Map operations on sessions.                          *)
(***************************************************************************)
\* mutant of LoadOrStore: a plain Store, which overwrites
StoreAlways(m, key, value) ==
    [map |-> [k \in DOMAIN m \cup {key} |-> IF k = key THEN value ELSE m[k]],
     loaded |-> FALSE]

\* mutant of LoadOrStore: reports the existing session but replaces it
LoadOrStoreReplaces(m, key, value) ==
    [map |-> [k \in DOMAIN m \cup {key} |-> IF k = key THEN value ELSE m[k]],
     loaded |-> key \in DOMAIN m]

\* sessions.LoadOrStore(key, value): the map after it, and loaded
LoadOrStore(m, key, value) ==
    IF key \in DOMAIN m
    THEN [map |-> m, loaded |-> TRUE]
    ELSE [map |-> [k \in DOMAIN m \cup {key} |-> IF k = key THEN value ELSE m[k]],
          loaded |-> FALSE]

\* mutant of Delete: the whole registry is emptied
DeleteEvery(m, key) == [k \in {} |-> 0]

\* sessions.Delete(key)
Delete(m, key) == [k \in DOMAIN m \ {key} |-> m[k]]

(***************************************************************************)
(* The gateway: the middleware chain of main.go 133-146 for the request    *)
(* that delivers a mention, after the signature check and the parsing:     *)
(* NewAuth, NewSessionMiddleware, NewRateLimiter, then NewHandler.  An     *)
(* error a middleware returns goes to NewErrorHandler.                     *)
(***************************************************************************)
StatusOK == 200
StatusAccepted == 202
StatusUnauthorized == 401
StatusForbidden == 403
StatusTooManyRequests == 429

\* the users of the Slack workspace, and the allow-list of the configuration
IsBot(user) == user = "B1"
allowedUsers == {"U1", "B1"}

\* the fixed texts of NewErrorHandler (middleware.go 131-158), without their glyphs
ErrorText(code) ==
    IF code = StatusUnauthorized THEN <<"Unauthorized">>
    ELSE IF code = StatusForbidden
    THEN <<"You are not allowed to perform this operation. Please contact the bot administrator.">>
    ELSE IF code = StatusTooManyRequests
    THEN <<"You have reached your rate limit. Please try again later.">>
    ELSE <<"Occured unexpected error">>

\* mutant of ErrorHandler: the error is answered without a message to the thread
ErrorHandlerSilent(t, c, code, ok) ==
    [chat |-> c, task |-> [t EXCEPT !.status = code, !.noRetry = TRUE, !.pc = "rejected"]]

\* NewErrorHandler (middleware.go 113-167) for an *echo.HTTPError with this code:
\* one post to the thread of the mention, the no-retry header, the status code.
\* client.PostMessageContext gets the options UseCase.postMessage gives it: the
\* thread of the mention and the text "<@user> \n" followed by the fixed text.
ErrorHandler(t, c, code, ok) ==
    LET m == t.mention
        r == postMessage(c, m.User, m.Channel, ErrorText(code), m.TimeStamp, ok)
    IN [chat |-> r.chat,
        task |-> [t EXCEPT !.status = code, !.noRetry = TRUE, !.pc = "rejected",
                           !.posts = @ + 1,
                           !.last = [op |-> "post", id |-> r.v, body |-> ErrorText(code),
                                     ok |-> ok]]]

\* the answers Slack gives to the post of the error handler, which is made under
\* the context of the request
GatewayChatOutcomes == IF budget.chat > 0 THEN {TRUE, FALSE} ELSE {TRUE}

\* userCache of NewAuth holds user: the lookup of an earlier delivery of this user
\* was answered and stored (line 93)
Cached(user) ==
    \E d \in Events :
        /\ task[d].pc \notin {"none", "lookup"}
        /\ task[d].mention.User = user
        /\ task[d].httpError # StatusUnauthorized

\* client.GetUserInfo answers or fails
LookupOutcomes == IF budget.rejects > 0 THEN {TRUE, FALSE} ELSE {TRUE}

\* mutant of AuthVerdict: bot and app users are treated as any other user
AuthVerdictBotsPass(user, found) ==
    IF ~found THEN StatusUnauthorized
    ELSE IF user \notin allowedUsers THEN StatusForbidden
    ELSE StatusAccepted

\* NewAuth (middleware.go 78-107) with a non-empty allow-list: the error code,
\* StatusOK for the silent return of line 96, StatusAccepted for next(c)
AuthVerdict(user, found) ==
    IF ~found THEN StatusUnauthorized
    ELSE IF IsBot(user) THEN StatusOK
    ELSE IF user \notin allowedUsers THEN StatusForbidden
    ELSE StatusAccepted

\* NewAuth from line 90 on, with the user found or not: the request is refused
\* with an *echo.HTTPError, answered without a word, or passed on
AfterLookup(t, found) ==
    LET verdict == AuthVerdict(t.mention.User, found)
    IN IF verdict \in {StatusUnauthorized, StatusForbidden}
       THEN [t EXCEPT !.httpError = verdict, !.pc = "error"]
       ELSE IF verdict = StatusOK
       THEN [t EXCEPT !.status = StatusOK, !.pc = "ignored"]
       ELSE [t EXCEPT !.pc = "session"]

\* the request of delivery e arrives at NewAuth (middleware.go 72-86): a user in
\* the cache is judged at once, any other user is looked up
Auth(e) ==
    /\ task[e].pc = "none"
    /\ \A d \in Events : d < e => task[d].pc # "none"
    /\ \E m \in Mentions(budget.channels, budget.stamps, budget.users) :
         \* a mention that is delivered again is the same mention
         /\ \A d \in Events :
              (task[d].mention.Channel = m.Channel /\ task[d].mention.TimeStamp = m.TimeStamp
                  /\ task[d].mention.User = m.User) => task[d].mention = m
         /\ LET t == [task[e] EXCEPT !.mention = m]
            IN task' = [task EXCEPT ![e] =
                 IF Cached(m.User) THEN AfterLookup(t, TRUE) ELSE [t EXCEPT !.pc = "lookup"]]
    /\ UNCHANGED <<rootCancelled, sessions, cancelled, chat, budget>>

\* client.GetUserInfo returns to NewAuth (middleware.go 89-93); the call has no
\* context and no timeout, and the request waits for as long as it takes
GetUserInfo(e) ==
    /\ task[e].pc = "lookup"
    /\ \E found \in LookupOutcomes :
         /\ task' = [task EXCEPT ![e] = AfterLookup(@, found)]
         /\ budget' = [budget EXCEPT !.rejects = IF found THEN @ ELSE @ - 1]
    /\ UNCHANGED <<rootCancelled, sessions, cancelled, chat>>

\* the *echo.HTTPError a middleware returned for the request of e reaches
\* NewErrorHandler, and Slack answers its post
HandleError(e) ==
    /\ task[e].pc = "error"
    /\ \E ok \in GatewayChatOutcomes :
         LET r == ErrorHandler(task[e], chat, task[e].httpError, ok)
         IN /\ chat' = r.chat
            /\ task' = [task EXCEPT ![e] = r.task]
            /\ budget' = [budget EXCEPT !.chat = IF ok THEN @ ELSE @ - 1]
    /\ UNCHANGED <<rootCancelled, sessions, cancelled>>

\* NewSessionMiddleware (middleware.go 216-240): register, or drop the duplicate
SessionMiddleware(e) ==
    /\ task[e].pc = "session"
    /\ LET r == LoadOrStore(sessions, Key(e), e)
       IN /\ sessions' = r.map
          /\ task' = [task EXCEPT ![e] =
               IF r.loaded
               THEN [@ EXCEPT !.status = StatusAccepted, !.pc = "duplicate"]
               ELSE [@ EXCEPT !.pc = "limiter"]]
    /\ UNCHANGED <<rootCancelled, cancelled, chat, budget>>

\* the answers of the limiter's store: it may deny while denials are left
LimiterOutcomes == IF budget.rejects > 0 THEN {TRUE, FALSE} ELSE {TRUE}

\* NewRateLimiter (middleware.go 170-213), when main.go 139-143 installs it, then
\* NewHandler's request side (handler.go 49-84): an allowed request starts the
\* goroutine and is answered 202, a denied one is refused with an *echo.HTTPError
RateLimiter(e) ==
    /\ task[e].pc = "limiter"
    /\ \E allowed \in LimiterOutcomes :
         /\ task' = [task EXCEPT ![e] =
              IF allowed THEN [@ EXCEPT !.status = StatusAccepted, !.pc = "go"]
              ELSE [@ EXCEPT !.httpError = StatusTooManyRequests, !.pc = "error"]]
         /\ budget' = [budget EXCEPT !.rejects = IF allowed THEN @ ELSE @ - 1]
    /\ UNCHANGED <<rootCancelled, sessions, cancelled, chat>>

(***************************************************************************)
(* The goroutine of NewHandler (handler.go 51-83).                         *)
(***************************************************************************)
\* lines 52-63: sessions.Load; without a session the goroutine ends
Load(e) ==
    /\ task[e].pc = "go"
    /\ task' = [task EXCEPT ![e] =
         IF Key(e) \in DOMAIN sessions
         THEN [@ EXCEPT !.session = sessions[Key(e)],
                        !.prompt = promptFromMention(task[e].mention.Text),
                        !.pc = "Execute"]
         ELSE [@ EXCEPT !.pc = "missing"]]
    /\ UNCHANGED <<rootCancelled, sessions, cancelled, chat, budget>>

(***************************************************************************)
(* UseCase.Execute (usecase.go 65-82), called at handler.go 66 while the   *)
(* operands of the select are evaluated.                                   *)
(***************************************************************************)
\* mutant of Refused: the check of line 69 is missing
RefusedNever(prompt) == FALSE

\* the prompt is refused
Refused(prompt) == prompt = << >>

Execute(e) ==
    /\ task[e].pc = "Execute"
    /\ LET prompt == task[e].prompt
       IN task' = [task EXCEPT ![e] =
            IF Refused(prompt)
            THEN [@ EXCEPT !.ret = ErrEmptyPrompt, !.pc = "select"]
            ELSE [@ EXCEPT !.messages = << HistoryMessage("user", << TextBlock(prompt) >>) >>,
                           !.pc = "post"]]
    /\ UNCHANGED <<rootCancelled, sessions, cancelled, chat, budget>>

(***************************************************************************)
(* UseCase.execute (usecase.go 88-180), one action per call to a           *)
(* collaborator.                                                           *)
(***************************************************************************)
\* lines 91-94: post the placeholder; a failure is returned
Post(e) ==
    /\ task[e].pc = "post"
    /\ \E ok \in ChatOutcomes(task[e].session) :
         LET t == task[e]
             m == t.mention
             r == postMessage(chat, m.User, m.Channel, Thinking, m.TimeStamp, ok)
             called == [op |-> "post", id |-> r.v, body |-> Thinking, ok |-> ok]
         IN /\ chat' = r.chat
            /\ budget' = [budget EXCEPT !.chat = @ - ChatSpent(t.session, ok)]
            /\ task' = [task EXCEPT ![e] =
                 IF r.err # Nil
                 THEN [@ EXCEPT !.ret = r.err, !.pc = "select",
                                !.posts = @ + 1, !.last = called]
                 ELSE [@ EXCEPT !.loc.messageID = r.v, !.loc.placeholder = r.v,
                                !.pc = "llm", !.posts = @ + 1, !.last = called]]
    /\ UNCHANGED <<rootCancelled, sessions, cancelled>>

\* what retry.Do does with the error of attempt n (0-based): "retry" or "break"
AfterError(n, err) ==
    IF ~RetryIf(err) THEN "break"
    ELSE IF n = Attempts - 1 THEN "break"
    ELSE "retry"

\* lines 103-114 inside retry.Do: one attempt of CreateMessage
CreateMessage(e) ==
    /\ task[e].pc = "llm"
    /\ \E r \in ProviderOutcomes(task[e].session, task[e].loc.n) :
         LET t == task[e]
             l == t.loc
             called == [op |-> "llm", id |-> 0, body |-> << >>, ok |-> r.ok]
         IN IF r.ok
            THEN /\ task' = [task EXCEPT ![e] =
                      \* retry.Do returns nil: its counter and error log are gone
                      [@ EXCEPT !.loc.message = r.message, !.loc.llmCalls = @ + 1,
                                !.loc.n = 0, !.loc.errorLog = EmptyErrorLog,
                                !.loc.delay = 0,
                                !.pc = "content", !.last = called]]
                 /\ budget' = [budget EXCEPT !.tools = @ - Len(r.message.toolCalls),
                                               !.issued = @ + Len(r.message.toolCalls)]
            ELSE LET log == [l.errorLog EXCEPT ![l.n + 1] = r.err]
                     next == IF AfterError(l.n, r.err) = "break" THEN "failed"
                             ELSE IF IsRateLimit(r.err) THEN "notice"
                             ELSE "sleep"
                 IN /\ task' = [task EXCEPT ![e] =
                         [@ EXCEPT !.loc.errorLog = log, !.loc.llmCalls = @ + 1,
                                   !.loc.delay = IF next = "failed" THEN 0
                                                 ELSE DelayType(l.n, r.err),
                                   !.pc = next, !.last = called]]
                    /\ budget' = [budget EXCEPT !.turns =
                                     IF CtxDone(t.session) \/ l.n > 0 THEN @ ELSE @ - 1,
                                     !.limited = IF IsRateLimit(r.err) THEN @ - 1 ELSE @]
    /\ UNCHANGED <<rootCancelled, sessions, cancelled, chat>>

\* line 123, inside DelayType: tell the user about the wait; the id is overwritten
Notice(e) ==
    /\ task[e].pc = "notice"
    /\ \E ok \in ChatOutcomes(task[e].session) :
         LET t == task[e]
             m == t.mention
             body == WaitingMessage(BackOffDelay(t.loc.n))
             r == updateMessage(chat, m.User, m.Channel, t.loc.messageID, body, ok)
         IN /\ chat' = r.chat
            /\ budget' = [budget EXCEPT !.chat = @ - ChatSpent(t.session, ok)]
            /\ task' = [task EXCEPT ![e] =
                 [@ EXCEPT !.loc.messageID = r.v, !.pc = "sleep",
                           !.last = [op |-> "update", id |-> t.loc.messageID,
                                     body |-> body, ok |-> r.err = Nil]]]
    /\ UNCHANGED <<rootCancelled, sessions, cancelled>>

\* retry.Do waits delayTime (its own context is never done), then n++
Sleep(e) ==
    /\ task[e].pc = "sleep"
    /\ task' = [task EXCEPT ![e] =
         [@ EXCEPT !.loc.n = @ + 1, !.pc = "llm",
                   !.last = [op |-> "sleep", id |-> 0,
                             body |-> <<task[e].loc.delay>>, ok |-> TRUE]]]
    /\ UNCHANGED <<rootCancelled, sessions, cancelled, chat, budget>>

\* lines 131-135: retry.Do returned its error log
Failed(e) ==
    /\ task[e].pc = "failed"
    /\ \E ok \in ChatOutcomes(task[e].session) :
         LET t == task[e]
             m == t.mention
             r == updateMessage(chat, m.User, m.Channel, t.loc.messageID, FailureGlyph, ok)
         IN /\ chat' = r.chat
            /\ budget' = [budget EXCEPT !.chat = @ - ChatSpent(t.session, ok)]
            /\ task' = [task EXCEPT ![e] =
                 [@ EXCEPT !.ret = RetryError(t.loc.errorLog), !.pc = "select",
                           !.last = [op |-> "update", id |-> t.loc.messageID,
                                     body |-> FailureGlyph, ok |-> r.err = Nil]]]
    /\ UNCHANGED <<rootCancelled, sessions, cancelled>>

\* mutant of Continue: the model's own entry is not appended before the tool entries
ContinueWithoutModelEntry(t) ==
    LET l == t.loc
        tools == [k \in 1..Len(l.toolResults) |-> HistoryMessage("tool", << l.toolResults[k] >>)]
    IN IF Len(l.toolResults) > 0
       THEN [t EXCEPT !.messages = @ \o tools, !.prompt = << >>,
                      !.depth = @ + 1, !.loc = FreshLocals, !.pc = "post"]
       ELSE [t EXCEPT !.ret = Nil, !.pc = "select"]

\* mutant of Continue: the loop recurses whether or not a tool result was produced
ContinueAlways(t) ==
    LET l == t.loc
        messages == Append(t.messages, HistoryMessage(l.message.role, l.messageContents))
        tools == [k \in 1..Len(l.toolResults) |-> HistoryMessage("tool", << l.toolResults[k] >>)]
    IN [t EXCEPT !.messages = messages \o tools, !.prompt = << >>,
                 !.depth = @ + 1, !.loc = FreshLocals, !.pc = "post"]

\* mutant of Continue: the recursive call gets only the entries of this turn
ContinueWithTurnOnly(t) ==
    LET l == t.loc
        tools == [k \in 1..Len(l.toolResults) |-> HistoryMessage("tool", << l.toolResults[k] >>)]
    IN IF Len(l.toolResults) > 0
       THEN [t EXCEPT !.messages = << HistoryMessage(l.message.role, l.messageContents) >> \o tools,
                      !.prompt = << >>,
                      !.depth = @ + 1, !.loc = FreshLocals, !.pc = "post"]
       ELSE [t EXCEPT !.messages = Append(@, HistoryMessage(l.message.role, l.messageContents)),
                      !.ret = Nil, !.pc = "select"]

\* mutant of Continue: the loop stops recursing once it is one level deep
ContinueOneLevel(t) ==
    LET l == t.loc
        messages == Append(t.messages, HistoryMessage(l.message.role, l.messageContents))
        tools == [k \in 1..Len(l.toolResults) |-> HistoryMessage("tool", << l.toolResults[k] >>)]
    IN IF Len(l.toolResults) > 0 /\ t.depth < 1
       THEN [t EXCEPT !.messages = messages \o tools, !.prompt = << >>,
                      !.depth = @ + 1, !.loc = FreshLocals, !.pc = "post"]
       ELSE [t EXCEPT !.messages = messages \o tools, !.ret = Nil, !.pc = "select"]

\* lines 165-179: append to the history, then recurse with an empty prompt or return nil
Continue(t) ==
    LET l == t.loc
        messages == Append(t.messages, HistoryMessage(l.message.role, l.messageContents))
        tools == [k \in 1..Len(l.toolResults) |-> HistoryMessage("tool", << l.toolResults[k] >>)]
    IN IF Len(l.toolResults) > 0
       THEN [t EXCEPT !.messages = messages \o tools, !.prompt = << >>,
                      !.depth = @ + 1, !.loc = FreshLocals, !.pc = "post"]
       ELSE [t EXCEPT !.messages = messages, !.ret = Nil, !.pc = "select"]

\* mutant of ToolLoop: the loop over the tool calls leaves its last call out
ToolLoopStopsEarly(t) ==
    IF t.loc.i < Len(t.loc.message.toolCalls) THEN [t EXCEPT !.pc = "tools"] ELSE Continue(t)

\* mutant of ToolLoop: the loop recurses as soon as one tool result exists
ToolLoopRecursesOnResult(t) ==
    IF Len(t.loc.toolResults) > 0 THEN Continue(t)
    ELSE IF t.loc.i <= Len(t.loc.message.toolCalls) THEN [t EXCEPT !.pc = "tools"]
    ELSE Continue(t)

\* the loop of lines 155-163 goes on with tool call i, or is over
ToolLoop(t) ==
    IF t.loc.i <= Len(t.loc.message.toolCalls) THEN [t EXCEPT !.pc = "tools"] ELSE Continue(t)

\* mutant of AfterUpdate: the error of the update is returned
AfterUpdateReturnsError(t, err) ==
    IF err # Nil THEN [t EXCEPT !.ret = err, !.pc = "select"] ELSE ToolLoop(t)

\* line 144 assigns the error of the update to err, and nothing reads it before
\* the loop over the tool calls (lines 154-163)
AfterUpdate(t, err) == ToolLoop(t)

\* lines 143-152: show the model's text in the placeholder, or delete the placeholder
Content(e) ==
    /\ task[e].pc = "content"
    /\ \E ok \in ChatOutcomes(task[e].session) :
         LET t == task[e]
             l == t.loc
             m == t.mention
         IN /\ budget' = [budget EXCEPT !.chat = @ - ChatSpent(t.session, ok)]
            /\ IF l.message.content # ""
               THEN LET r == updateMessage(chat, m.User, m.Channel, l.messageID,
                                           <<l.message.content>>, ok)
                    IN /\ chat' = r.chat
                       /\ task' = [task EXCEPT ![e] = AfterUpdate(
                            [t EXCEPT !.loc.messageID = r.v,
                                      !.loc.messageContents =
                                          Append(@, TextBlock(l.message.content)),
                                      !.loc.i = 1, !.loc.llmCalls = 0,
                                      !.last = [op |-> "update", id |-> l.messageID,
                                                body |-> <<l.message.content>>,
                                                ok |-> r.err = Nil]],
                            r.err)]
               ELSE /\ chat' = DeleteMessageContext(chat, l.messageID, ok)
                    /\ task' = [task EXCEPT ![e] = ToolLoop(
                            [t EXCEPT !.loc.i = 1, !.loc.llmCalls = 0,
                                      !.last = [op |-> "delete", id |-> l.messageID,
                                                body |-> << >>, ok |-> ok]])]
    /\ UNCHANGED <<rootCancelled, sessions, cancelled>>

\* line 151: the delete is called with the session context itself, without a
\* timeout; when Slack does not answer, the call is left waiting
DeleteHangs(e) ==
    /\ task[e].pc = "content"
    /\ task[e].loc.message.content = ""
    /\ ~CtxDone(task[e].session)
    /\ budget.hang > 0
    /\ budget' = [budget EXCEPT !.hang = @ - 1]
    /\ task' = [task EXCEPT ![e].pc = "deleting"]
    /\ UNCHANGED <<rootCancelled, sessions, cancelled, chat>>

\* the waiting delete returns, with the context's error, once the context is done
DeleteReturns(e) ==
    /\ task[e].pc = "deleting"
    /\ CtxDone(task[e].session)
    /\ task' = [task EXCEPT ![e] = ToolLoop(
            [task[e] EXCEPT !.loc.i = 1, !.loc.llmCalls = 0,
                            !.last = [op |-> "delete", id |-> task[e].loc.messageID,
                                      body |-> << >>, ok |-> FALSE]])]
    /\ UNCHANGED <<rootCancelled, sessions, cancelled, chat, budget>>

\* lines 155-163: one round of the loop over the tool calls
ToolCall(e) ==
    /\ task[e].pc = "tools"
    /\ \E outcome \in BackendOutcomes(task[e].session) :
         LET t == task[e]
             l == t.loc
             toolCall == l.message.toolCalls[l.i]
             r == handleToolCall(toolCall, outcome)
         IN \* an outcome matters only if the backend is called
            /\ r.called \/ outcome = CHOOSE o \in BackendOutcomes(t.session) : TRUE
            /\ task' = [task EXCEPT ![e] = ToolLoop(
                 [t EXCEPT !.loc.messageContents = @ \o r.messageContent,
                           !.loc.toolResults = @ \o r.toolResults,
                           !.loc.i = @ + 1,
                           !.backendCalls = @ + (IF r.called THEN 1 ELSE 0),
                           !.got = IF r.called THEN outcome.content ELSE @,
                           !.last = IF r.called
                                    THEN [op |-> "tool", id |-> toolCall.id,
                                          body |-> toolCall.name, ok |-> ~outcome.err]
                                    ELSE @])]
    /\ UNCHANGED <<rootCancelled, sessions, cancelled, chat, budget>>

(***************************************************************************)
(* The select of the goroutine (handler.go 65-82).  Its operands are       *)
(* evaluated on entry, so Execute has returned when it starts to wait.     *)
(* errCh is unbuffered and only this goroutine holds it: nothing ever      *)
(* receives from it, so the send case cannot proceed and the select waits  *)
(* for the session's context.                                              *)
(***************************************************************************)
\* some goroutine is receiving from the errCh of e
ErrChReceiver(e) == \E g \in Events \ {e} : task[g].pc = "receive"

Select(e) ==
    /\ task[e].pc = "select"
    /\ IF ErrChReceiver(e)
       THEN \* lines 66-73
            /\ cancelled' = cancel(cancelled, task[e].session)
            /\ sessions' = Delete(sessions, Key(e))
            /\ task' = [task EXCEPT ![e].pc = "done"]
       ELSE \* lines 74-81
            /\ CtxDone(task[e].session)
            /\ cancelled' = cancelled
            /\ sessions' = Delete(sessions, Key(e))
            /\ task' = [task EXCEPT ![e].pc = "done"]
    /\ UNCHANGED <<rootCancelled, chat, budget>>

(***************************************************************************)
(* main.go 125: an interrupt cancels the root context.                     *)
(***************************************************************************)
Interrupt ==
    /\ ~rootCancelled
    /\ rootCancelled' = TRUE
    /\ UNCHANGED <<sessions, cancelled, chat, task, budget>>

Next ==
    \/ \E e \in Events : Auth(e)
    \/ \E e \in Events : GetUserInfo(e)
    \/ \E e \in Events : SessionMiddleware(e)
    \/ \E e \in Events : RateLimiter(e)
    \/ \E e \in Events : Load(e)
    \/ \E e \in Events : Execute(e)
    \/ \E e \in Events : Post(e)
    \/ \E e \in Events : CreateMessage(e)
    \/ \E e \in Events : Notice(e)
    \/ \E e \in Events : Sleep(e)
    \/ \E e \in Events : Failed(e)
    \/ \E e \in Events : Content(e)
    \/ \E e \in Events : DeleteHangs(e)
    \/ \E e \in Events : DeleteReturns(e)
    \/ \E e \in Events : ToolCall(e)
    \/ \E e \in Events : Select(e)
    \/ Interrupt

Spec == Init /\ [][Next]_vars

(***************************************************************************)
(* The gateway alone: one thread, mentions of an allowed user, of a bot    *)
(* and of a user missing from the allow-list, user lookups that may fail   *)
(* and a limiter that may deny.  Slack may refuse a post; the backend and  *)
(* the tools answer.                                                       *)
(***************************************************************************)
GatewayInit ==
    /\ rootCancelled = FALSE
    /\ sessions = [k \in {} |-> 0]
    /\ cancelled = {}
    /\ chat = << >>
    /\ task = [e \in Events |-> InitTask]
    /\ budget = [stamps |-> {"1.1"}, tools |-> 0, issued |-> 0,
                 turns |-> 0, limited |-> 0, chat |-> MaxChatErrors, hang |-> 0,
                 users |-> GatewayUsers, channels |-> Channels, rejects |-> MaxRejected]

GatewayNext ==
    \/ \E e \in Events : Auth(e)
    \/ \E e \in Events : GetUserInfo(e)
    \/ \E e \in Events : SessionMiddleware(e)
    \/ \E e \in Events : RateLimiter(e)
    \/ \E e \in Events : HandleError(e)
    \/ \E e \in Events : Load(e)
    \/ \E e \in Events : Execute(e)
    \/ \E e \in Events : Post(e)
    \/ \E e \in Events : CreateMessage(e)
    \/ \E e \in Events : Failed(e)
    \/ \E e \in Events : Content(e)
    \/ \E e \in Events : Select(e)
    \/ Interrupt

GatewaySpec == GatewayInit /\ [][GatewayNext]_vars

(***************************************************************************)
(* Two conversations side by side: mentions in two threads, each with its  *)
(* own session and goroutine.  The provider may issue a tool call and fail *)
(* with a transient error, and Slack may leave a delete unanswered.        *)
(***************************************************************************)
ParallelInit ==
    /\ rootCancelled = FALSE
    /\ sessions = [k \in {} |-> 0]
    /\ cancelled = {}
    /\ chat = << >>
    /\ task = [e \in Events |-> InitTask]
    /\ budget = [stamps |-> Stamps, tools |-> MaxParallelToolCalls, issued |-> 0,
                 turns |-> MaxFailingTurns, limited |-> 0, chat |-> 0, hang |-> MaxHangs,
                 users |-> Users, channels |-> Channels, rejects |-> 0]

ParallelNext ==
    \/ \E e \in Events : Auth(e)
    \/ \E e \in Events : GetUserInfo(e)
    \/ \E e \in Events : SessionMiddleware(e)
    \/ \E e \in Events : RateLimiter(e)
    \/ \E e \in Events : Load(e)
    \/ \E e \in Events : Execute(e)
    \/ \E e \in Events : Post(e)
    \/ \E e \in Events : CreateMessage(e)
    \/ \E e \in Events : Sleep(e)
    \/ \E e \in Events : Failed(e)
    \/ \E e \in Events : Content(e)
    \/ \E e \in Events : DeleteHangs(e)
    \/ \E e \in Events : DeleteReturns(e)
    \/ \E e \in Events : ToolCall(e)
    \/ \E e \in Events : Select(e)
    \/ Interrupt

ParallelSpec == ParallelInit /\ [][ParallelNext]_vars

(***************************************************************************)
(* The registry key alone: mentions whose channel id and timestamp are     *)
(* strings of the payload, taken as they come, so they may hold the "#"    *)
(* that sessionKey puts between them.  No collaborator fails and the model *)
(* asks for no tool.                                                       *)
(***************************************************************************)
KeyInit ==
    /\ rootCancelled = FALSE
    /\ sessions = [k \in {} |-> 0]
    /\ cancelled = {}
    /\ chat = << >>
    /\ task = [e \in Events |-> InitTask]
    /\ budget = [stamps |-> KeyStamps, tools |-> 0, issued |-> 0,
                 turns |-> 0, limited |-> 0, chat |-> 0, hang |-> 0,
                 users |-> Users, channels |-> KeyChannels, rejects |-> 0]

KeyNext ==
    \/ \E e \in Events : Auth(e)
    \/ \E e \in Events : GetUserInfo(e)
    \/ \E e \in Events : SessionMiddleware(e)
    \/ \E e \in Events : RateLimiter(e)
    \/ \E e \in Events : Load(e)
    \/ \E e \in Events : Execute(e)
    \/ \E e \in Events : Post(e)
    \/ \E e \in Events : CreateMessage(e)
    \/ \E e \in Events : Failed(e)
    \/ \E e \in Events : Content(e)
    \/ \E e \in Events : Select(e)
    \/ Interrupt

KeySpec == KeyInit /\ [][KeyNext]_vars

(***************************************************************************)
(* Properties.                                                             *)
(***************************************************************************)
\* the goroutine of e is inside UseCase.Execute
InLoop(e) ==
    task[e].pc \in {"Execute", "post", "llm", "notice", "sleep", "failed", "content",
                    "deleting", "tools"}

\* UseCase.Execute has returned to the goroutine of e
Returned(e) == task[e].pc \in {"select", "done"}

Range(f) == {f[k] : k \in DOMAIN f}

\* C1, first half: no two goroutines are inside Execute for the same key
AtMostOneLoop ==
    \A d, e \in Events : (d # e /\ InLoop(d) /\ InLoop(e)) => Key(d) # Key(e)

\* C1, second half: a step that registers for a key that has a session reports
\* the duplicate and leaves the registry as it is
DuplicateLeavesRegistry ==
    \A e \in Events :
        (task[e].pc = "session" /\ task'[e].pc # "session"
            /\ KeyOf(task'[e].mention) \in DOMAIN sessions)
        => (task'[e].pc = "duplicate" /\ sessions' = sessions)

\* C1: for every conversation key at most one Execution Loop is active at any
\* instant, and a registration attempt for a key that has a registered session
\* reports that it exists, stores nothing and leaves the registered one unchanged.
C1_OneLoopPerKey == []AtMostOneLoop /\ [][DuplicateLeavesRegistry]_vars

\* C1 witness: a delivery was dropped as a duplicate while the loop of the
\* registered session of its key is running
C1_Witness ==
    \E d, e \in Events :
        /\ d # e
        /\ task[e].pc = "duplicate"
        /\ InLoop(d)
        /\ Key(d) = Key(e)
        /\ Key(d) \in DOMAIN sessions /\ sessions[Key(d)] = d

\* the session the goroutine of e runs under is still the one registered for its key
Registered(e) == Key(e) \in DOMAIN sessions /\ sessions[Key(e)] = task[e].session

\* C2 (as claimed): when the Execution Loop of an accepted mention has finished,
\* its session is removed from the registry on every exit path of the goroutine:
\* a goroutine whose Execute has returned and that can take no further step has
\* removed its session.
C2_RemovedWhenLoopFinishes ==
    \A e \in Events :
        (task[e].pc = "select" /\ ~ENABLED Select(e)) => ~Registered(e)

\* C3: Execute called with an empty prompt as the first turn returns the
\* empty-prompt error at once: no chat message is posted, the provider is not
\* called and no tool backend is called.
C3_EmptyPromptRejected ==
    \A e \in Events :
        (task[e].pc \in {"post", "llm", "notice", "sleep", "failed", "content", "deleting",
                         "tools", "select", "done"}
            /\ task[e].depth = 0 /\ task[e].prompt = << >>)
        => /\ Returned(e)
           /\ task[e].ret = ErrEmptyPrompt
           /\ task[e].posts = 0
           /\ task[e].backendCalls = 0
           /\ task[e].last = NoCall
           /\ task[e].messages = << >>

\* C3 witness: an execution with an empty prompt has returned
C3_Witness ==
    \E e \in Events :
        /\ task[e].pc = "select"
        /\ task[e].prompt = << >>
        /\ task[e].ret = ErrEmptyPrompt

\* kinds of provider errors, by the markers their text carries
Overloaded(err) == err.kind = "provider" /\ "overloaded_error" \in err.marks
NotOverloaded(err) == err.kind = "provider" /\ "overloaded_error" \notin err.marks
RateLimited(err) == err.kind = "provider" /\ "rate_limit_error" \in err.marks

\* C4: within one loop iteration the provider is called at most 5 times; the
\* retry gives up before the 5th call only on an error that is not overloaded,
\* so after 4 overloaded failures a 5th call is made, and when a call succeeds
\* the iteration goes on with that response and without an error.
C4_AtMostFiveCalls ==
    \A e \in Events :
        LET l == task[e].loc
        IN /\ l.llmCalls <= 5
           /\ (task[e].pc = "failed" /\ l.llmCalls < 5)
                => NotOverloaded(l.errorLog[l.llmCalls])
           /\ task[e].pc = "content"
                => /\ l.llmCalls \in 1..5
                   /\ l.message.role = "assistant"
                   /\ l.errorLog = [k \in 1..5 |-> Nil]
                   /\ task[e].ret = Nil

\* C4 witness: the 5th call of an iteration succeeded and the iteration goes on
C4_Witness ==
    \E e \in Events :
        /\ task[e].pc = "content"
        /\ task[e].loc.llmCalls = 5
        /\ task[e].last = [op |-> "llm", id |-> 0, body |-> << >>, ok |-> TRUE]
        /\ task[e].ret = Nil

\* the 5 attempts of the current iteration of e all failed with an overloaded
\* error: an error whose text holds the marker, whatever else it holds
Exhausted(e) ==
    /\ DOMAIN task[e].loc.errorLog = 1..5
    /\ \A k \in 1..5 : Overloaded(task[e].loc.errorLog[k])

\* the history of e holds one model entry per finished iteration and nothing of
\* the current one
NoEntryOfThisIteration(e) ==
    /\ Len(SelectSeq(task[e].messages, LAMBDA m : m.Role = "assistant")) = task[e].depth
    /\ task[e].messages[Len(task[e].messages)].Role \in {"user", "tool"}

\* C5 (as claimed): if all 5 provider calls of an iteration fail with an
\* overloaded error, no 6th call is made, the failure glyph is written to the
\* placeholder, Execute returns an error, no tool is dispatched and no history
\* entry is appended for that iteration.
C5_ExhaustedFails ==
    \A e \in Events :
        Exhausted(e) =>
            LET t == task[e]
                l == t.loc
            IN /\ l.llmCalls = 5
               /\ t.pc \in {"failed", "select", "done"}
               /\ l.message = NoMessage
               /\ l.messageContents = << >> /\ l.toolResults = << >>
               /\ t.last.op # "tool"
               /\ NoEntryOfThisIteration(e)
               /\ Returned(e) =>
                    /\ t.ret # Nil
                    /\ t.last.op = "update"
                    /\ t.last.id = l.placeholder
                    /\ t.last.body = FailureGlyph
                    /\ t.last.ok => chat[l.placeholder].text.body = FailureGlyph

\* C6: a provider error that is not overloaded is never retried: no provider
\* call follows it in its iteration (so the provider is called once when it is
\* the error of the first call), the failure glyph is written to the placeholder
\* and Execute returns an error that carries it.
C6_OtherErrorNotRetried ==
    \A e \in Events : \A k \in 1..5 :
        LET t == task[e]
            l == t.loc
        IN (k \in DOMAIN l.errorLog /\ NotOverloaded(l.errorLog[k])) =>
             /\ l.llmCalls = k
             /\ t.pc \in {"failed", "select", "done"}
             /\ Returned(e) =>
                  /\ t.ret.kind = "retry.Error"
                  /\ t.ret.errs[k] = l.errorLog[k]
                  /\ t.last.op = "update"
                  /\ t.last.body = FailureGlyph
                  /\ k = 1 => t.last.id = l.placeholder

\* C6 witness: the first call failed with an error without a marker under a live
\* context, and Execute has returned after that one call
C6_Witness ==
    \E e \in Events :
        /\ task[e].pc = "select"
        /\ ~CtxDone(task[e].session)
        /\ task[e].loc.llmCalls = 1
        /\ task[e].loc.errorLog[1] = ProviderError({})
        /\ task[e].last.body = FailureGlyph

\* a provider error that reports an overloaded or a rate-limited condition
Transient(err) == err.kind = "provider" /\ err.marks # {}

\* C7 (as claimed): an error reporting an overloaded or a rate-limited condition
\* is retried, and reaches the caller of Execute only after all 5 attempts.
C7_TransientRetried ==
    \A e \in Events :
        LET l == task[e].loc
        IN (task[e].pc \in {"failed", "select", "done"} /\ l.llmCalls >= 1
              /\ Transient(l.errorLog[l.llmCalls]))
           => l.llmCalls = 5

\* C8 (as claimed): when a provider error signals rate limiting and another
\* attempt follows, the delay waited before that attempt is at least 90 seconds,
\* and the placeholder is updated with a waiting message before the wait: the
\* update goes to the placeholder of the iteration and shows there when Slack
\* accepts it.
C8_RateLimitFloor ==
    \A e \in Events :
        LET t == task[e]
            l == t.loc
        IN /\ (t.pc = "sleep" /\ RateLimited(l.errorLog[l.n + 1]))
                => /\ l.delay >= 90000
                   /\ t.last.op = "update"
                   /\ Len(t.last.body) = 2
                   /\ t.last.body[1] = "Rate limit exceeded. waiting for"
                   /\ t.last.id = l.placeholder
                   /\ t.last.ok => chat[l.placeholder].text.body = t.last.body
           /\ (t.pc = "llm" /\ l.n > 0 /\ RateLimited(l.errorLog[l.n]))
                => /\ t.last.op = "sleep"
                   /\ t.last.body[1] >= 90000

\* the provider step of the current iteration of e failed on its 5th attempt
FailedAfterFive(e) ==
    /\ Returned(e)
    /\ task[e].loc.llmCalls = 5
    /\ task[e].loc.errorLog[5] # Nil

\* C9 (as claimed): when all attempts are exhausted, the error Execute returns is
\* the error of the last attempt itself.
C9_LastErrorReturned ==
    \A e \in Events : FailedAfterFive(e) => task[e].ret = task[e].loc.errorLog[5]

\* what Execute returns then: retry.Do's log of the errors of the 5 attempts, in
\* order, whose last element is the error of the last attempt
AggregateReturned ==
    \A e \in Events :
        FailedAfterFive(e) =>
            /\ task[e].ret.kind = "retry.Error"
            /\ DOMAIN task[e].ret.errs = 1..5
            /\ \A k \in 1..4 : Overloaded(task[e].ret.errs[k])
            /\ task[e].ret.errs[5].kind = "provider"
            /\ task[e].ret.errs[5] = task[e].loc.errorLog[5]

\* C10: in every history, every tool_result block references the id of a
\* tool_use block of an earlier entry of the same history.
C10_ResultsReferToUses ==
    \A e \in Events :
        LET h == task[e].messages
        IN \A j \in 1..Len(h) : \A b \in Range(h[j].Content) :
             b.Type = "tool_result" =>
                \E i \in 1..(j - 1) : \E c \in Range(h[i].Content) :
                    c.Type = "tool_use" /\ c.ID = b.ToolUseID

\* C10 witness: a history holds a tool_result block
C10_Witness ==
    \E e \in Events : \E j \in 1..Len(task[e].messages) :
        \E b \in Range(task[e].messages[j].Content) : b.Type = "tool_result"

\* the step of e ends a turn: the history is extended and the loop recurses or returns
TurnEnds(e) ==
    task[e].pc \in {"content", "deleting", "tools"} /\ task'[e].pc \in {"post", "select"}

\* the entries a turn-ending step of e appends: one model entry, then k tool
\* entries, the first of them the results already collected, in their order
TurnAppends(e, k) ==
    LET h == task[e].messages
        g == task'[e].messages
        l == task[e].loc
    IN /\ Len(g) = Len(h) + 1 + k
       /\ SubSeq(g, 1, Len(h)) = h
       /\ g[Len(h) + 1].Role = "assistant"
       /\ g[Len(h) + 1].Role = l.message.role
       /\ Len(l.toolResults) <= k
       /\ \A j \in 1..k :
            /\ g[Len(h) + 1 + j].Role = "tool"
            /\ Len(g[Len(h) + 1 + j].Content) = 1
            /\ g[Len(h) + 1 + j].Content[1].Type = "tool_result"
            /\ j <= Len(l.toolResults) => g[Len(h) + 1 + j].Content[1] = l.toolResults[j]
       /\ \A i, j \in 1..k :
            i < j => g[Len(h) + 1 + i].Content[1].ToolUseID
                        < g[Len(h) + 1 + j].Content[1].ToolUseID

\* a turn-ending step recurses exactly when it appends a tool entry
RecursesIffToolResult ==
    \A e \in Events :
        TurnEnds(e) =>
            \E k \in 0..(Len(task[e].loc.toolResults) + 1) :
                /\ TurnAppends(e, k)
                /\ task'[e].pc = "post" <=> k >= 1
                /\ task'[e].ret = Nil
                /\ task'[e].pc = "post" =>
                     /\ task'[e].prompt = << >>
                     /\ task'[e].depth = task[e].depth + 1
                     /\ task'[e].loc = FreshLocals

\* C11: after a successful model response the loop recurses if and only if at
\* least one tool result was produced in the turn: then one model entry is
\* appended, then each tool result as its own tool entry, in tool-call order, and
\* the loop re-enters with an empty prompt; with no tool result the execution
\* returns without an error.
C11_RecursesIffToolResult == [][RecursesIffToolResult]_vars

\* C11 witness: the loop has recursed after a turn that produced two tool results
C11_Witness ==
    \E e \in Events :
        /\ task[e].pc = "post"
        /\ task[e].depth = 1
        /\ Len(task[e].messages) = 4
        /\ task[e].messages[2].Role = "assistant"
        /\ task[e].messages[3].Role = "tool" /\ task[e].messages[4].Role = "tool"
        /\ task[e].prompt = << >>

\* the tool_result that lines 267-282 make of a backend error
ErrorResult(id, name) ==
    ToolResultBlock(id, << TextBlock(<<"Error calling tool", Split(name, ToolDelimiter)[2],
                                       "backend error">>) >>, << >>)

\* the number of model entries in the history of e
ModelEntries(e) == Len(SelectSeq(task[e].messages, LAMBDA m : m.Role = "assistant"))

\* after a backend error the turn goes on or the loop recurses, without an error,
\* and the error's tool_result is among the results or in the history
BackendErrorAbsorbed ==
    \A e \in Events :
        LET t == task[e]
        IN (t.last.op = "tool" /\ ~t.last.ok) =>
             /\ t.pc \in {"tools", "post"}
             /\ t.ret = Nil
             /\ t.pc = "tools" => ErrorResult(t.last.id, t.last.body) \in Range(t.loc.toolResults)
             /\ t.pc = "post" =>
                  /\ HistoryMessage("tool", << ErrorResult(t.last.id, t.last.body) >>)
                        \in Range(t.messages)
                  /\ t.prompt = << >>
                  /\ t.loc = FreshLocals

\* tool calls are made only under the response of one model invocation per level
OneInvocationBeforeTools ==
    \A e \in Events :
        task[e].pc = "tools" =>
            /\ task[e].loc.message.role = "assistant"
            /\ ModelEntries(e) = task[e].depth

\* no step takes an entry out of a history or changes one
HistoryKept ==
    \A e \in Events :
        /\ Len(task[e].messages) <= Len(task'[e].messages)
        /\ SubSeq(task'[e].messages, 1, Len(task[e].messages)) = task[e].messages

\* C12: a tool call whose backend returns an error does not make Execute fail:
\* the history of the next model invocation holds a tool entry whose tool_result
\* carries the error string, and one further model invocation is made before any
\* further tool call.
C12_BackendErrorFedBack ==
    []BackendErrorAbsorbed /\ []OneInvocationBeforeTools /\ [][HistoryKept]_vars

\* C12 witness: the next model invocation is about to be made with a history whose
\* only tool entry carries the error of the turn's single tool call
C12_Witness ==
    \E e \in Events :
        /\ task[e].pc = "llm"
        /\ task[e].depth = 1
        /\ ~CtxDone(task[e].session)
        /\ Len(task[e].messages) = 3
        /\ Len(task[e].messages[2].Content) = 1
        /\ task[e].messages[2].Content[1].Type = "tool_use"
        /\ task[e].messages[3] =
              HistoryMessage("tool", << ErrorResult(task[e].messages[2].Content[1].ID,
                                                    fetch__get) >>)

\* the step of e that shows or deletes the placeholder after a model response
ContentStep(e) ==
    task[e].pc \in {"content", "deleting"} /\ task'[e].pc \notin {"content", "deleting"}

\* no message is added to the thread, and the flags / the texts stay as they are
SameDeleted == Len(chat') = Len(chat) /\ \A k \in 1..Len(chat) : chat'[k].deleted = chat[k].deleted
SameTexts == Len(chat') = Len(chat) /\ \A k \in 1..Len(chat) : chat'[k].text = chat[k].text

\* with text the placeholder is updated and kept, without text it is deleted
PlaceholderShownOrDeleted ==
    \A e \in Events :
        ContentStep(e) =>
            LET l == task[e].loc
                id == l.messageID
                called == task'[e].last
            IN /\ l.message.role = "assistant"
               /\ id = l.placeholder
               /\ called.id = id
               /\ l.message.content # "" =>
                    /\ called.op = "update"
                    /\ called.body = << l.message.content >>
                    /\ SameDeleted
                    /\ called.ok =>
                         /\ chat'[id].text = Formatted(task[e].mention.User,
                                                       << l.message.content >>)
                         /\ ~chat'[id].deleted
               /\ l.message.content = "" =>
                    /\ called.op = "delete"
                    /\ SameTexts
                    /\ called.ok => chat'[id].deleted
                    /\ l.message.toolCalls = << >> =>
                         /\ task'[e].pc = "select"
                         /\ task'[e].ret = Nil

\* C13 (as claimed): after a successful model response, a non-empty text is written to the
\* placeholder in place and the placeholder is not deleted; with an empty text
\* the placeholder is deleted; with an empty text and no tool call the loop then
\* ends without an error.
C13_PlaceholderShownOrDeleted == [][PlaceholderShownOrDeleted]_vars

\* the positions of name at which the delimiter "__" starts
DelimiterAt(name) == {i \in 1..(Len(name) - 1) : name[i] = "_" /\ name[i + 1] = "_"}

\* name is server "__" tool with a configured server and no further delimiter
WellFormed(name) ==
    /\ Cardinality(DelimiterAt(name)) = 1
    /\ \E i \in DelimiterAt(name) : SubSeq(name, 1, i - 1) \in mcpClients

\* the tool call the loop of e is at
CurrentToolCall(e) == task[e].loc.message.toolCalls[task[e].loc.i]

\* what handleToolCall answers for the calls the loop reaches
DispatchOnlyWellFormed ==
    \A e \in Events :
        task[e].pc = "tools" =>
            \A outcome \in ToolOutcomes :
                LET toolCall == CurrentToolCall(e)
                    r == handleToolCall(toolCall, outcome)
                IN /\ r.called => WellFormed(toolCall.name)
                   /\ (toolCall.name = fetch__get /\ toolCall.args = "object") =>
                        /\ r.called
                        /\ Split(toolCall.name, ToolDelimiter)
                              = << <<"f","e","t","c","h">>, <<"g","e","t">> >>
                   /\ toolCall.name \in {badname, a__b__c} =>
                        /\ ~r.called
                        /\ r.toolResults = << >>
                        /\ r.messageContent =
                              << ToolUseBlock(toolCall.id, toolCall.name,
                                              jsonMarshal(toolCall.args).bytes) >>

\* a step of the loop over the tool calls calls a backend only for a well-formed
\* name; for "badname" and "a__b__c" it only appends the tool_use block
RejectedNameStep ==
    \A e \in Events :
        (task[e].pc = "tools" /\ task'[e] # task[e]) =>
            LET toolCall == CurrentToolCall(e)
                l == task[e].loc
                use == ToolUseBlock(toolCall.id, toolCall.name, jsonMarshal(toolCall.args).bytes)
            IN /\ task'[e].backendCalls # task[e].backendCalls => WellFormed(toolCall.name)
               /\ toolCall.name \in {badname, a__b__c} =>
                    /\ task'[e].backendCalls = task[e].backendCalls
                    /\ task'[e].last = task[e].last
                    /\ chat' = chat /\ sessions' = sessions
                    /\ IF task'[e].pc = "tools"
                       THEN /\ task'[e].loc.messageContents = Append(l.messageContents, use)
                            /\ task'[e].loc.toolResults = l.toolResults
                       ELSE /\ TurnAppends(e, Len(l.toolResults))
                            /\ task'[e].messages[Len(task[e].messages) + 1].Content
                                  = Append(l.messageContents, use)

\* C14: a tool call is dispatched to a backend only if its name splits on "__"
\* into exactly two parts and the server is configured: "fetch__get" resolves to
\* server fetch and tool get, while "badname" and "a__b__c" never cause a backend
\* call and have no effect but the appended tool_use block.
C14_DispatchOnlyWellFormed == []DispatchOnlyWellFormed /\ [][RejectedNameStep]_vars

\* C14 witness: a turn whose only tool call was "a__b__c" is over: the model entry
\* holds its tool_use block, no backend was called and nothing was fed back
C14_Witness ==
    \E e \in Events :
        /\ task[e].pc = "select"
        /\ task[e].ret = Nil
        /\ task[e].backendCalls = 0
        /\ Len(task[e].messages) = 2
        /\ \E b \in Range(task[e].messages[2].Content) :
              b.Type = "tool_use" /\ b.Name = a__b__c

\* the tool_use blocks of e, collected in the turn or already in the history
ToolUses(e) ==
    {b \in Range(task[e].loc.messageContents) : b.Type = "tool_use"}
      \cup UNION { {b \in Range(task[e].messages[j].Content) : b.Type = "tool_use"} :
                     j \in 1..Len(task[e].messages) }

\* C15 (as claimed): for a tool call whose name has an invalid format or whose
\* server is not configured (or whose arguments cannot be deserialized) the
\* dispatcher emits nothing: no tool_use block and no tool_result block exist
\* for that call.
C15_SkippedEmitsNothing ==
    \A e \in Events : \A b \in ToolUses(e) : WellFormed(b.Name)

\* a step of the loop over the tool calls of e
ToolStep(e) == task[e].pc = "tools" /\ task'[e] # task[e]

\* the number of tool results a step of the loop over the tool calls adds
NewResults(e) ==
    IF task'[e].pc = "tools"
    THEN Len(task'[e].loc.toolResults) - Len(task[e].loc.toolResults)
    ELSE Len(task'[e].messages) - Len(task[e].messages) - 1 - Len(task[e].loc.toolResults)

\* the last tool result after a step of the loop over the tool calls
LatestResult(e) ==
    IF task'[e].pc = "tools"
    THEN task'[e].loc.toolResults[Len(task'[e].loc.toolResults)]
    ELSE task'[e].messages[Len(task'[e].messages)].Content[1]

\* a tool failure is absorbed: the step returns no error and the loop goes on
ToolFailureAbsorbed ==
    \A e \in Events :
        ToolStep(e) =>
            LET toolCall == CurrentToolCall(e)
                l == task[e].loc
                failed == /\ task'[e].last.op = "tool" /\ task'[e].last.id = toolCall.id
                          /\ ~task'[e].last.ok
            IN /\ task'[e].ret = Nil
               /\ IF l.i < Len(l.message.toolCalls)
                  THEN task'[e].pc = "tools" /\ task'[e].loc.i = l.i + 1
                  ELSE task'[e].pc \in {"post", "select"}
               /\ (jsonMarshal(toolCall.args).err \/ ~WellFormed(toolCall.name)) =>
                    /\ NewResults(e) = 0
                    /\ task'[e].backendCalls = task[e].backendCalls
               /\ failed =>
                    /\ NewResults(e) = 1
                    /\ LatestResult(e) = ErrorResult(toolCall.id, toolCall.name)
                    /\ task'[e].backendCalls = task[e].backendCalls + 1

\* C16: no tool failure ends the execution with an error: a failure to serialize
\* the arguments, an invalid name and an unknown server yield no tool result, a
\* backend error becomes a tool_result, and in each case the remaining tool calls
\* of the turn are still processed and execute returns no error for it.
C16_ToolFailureAbsorbed == [][ToolFailureAbsorbed]_vars

\* C16 witness: the first tool call of a turn failed on its backend under a live
\* context and the loop is at the second one, with the error as a tool result
C16_Witness ==
    \E e \in Events :
        /\ task[e].pc = "tools"
        /\ task[e].loc.i = 2
        /\ ~CtxDone(task[e].session)
        /\ task[e].last.op = "tool" /\ ~task[e].last.ok
        /\ task[e].last.id = task[e].loc.message.toolCalls[1].id
        /\ Len(task[e].loc.toolResults) = 1
        /\ task[e].ret = Nil

\* Execute of e has returned an error after it had posted a placeholder
FailedAfterPost(e) ==
    /\ Returned(e)
    /\ task[e].ret \notin {Nil, ErrEmptyPrompt}
    /\ \E k \in 1..Len(chat) : chat[k].thread = task[e].mention.TimeStamp

\* C17 (as claimed): after a terminal failure of Execute that follows a posted
\* placeholder, no placeholder of the execution is left in the thread showing the
\* "Thinking..." text: each has got model text or the failure glyph, or is deleted.
C17_NoStalePlaceholder ==
    \A e \in Events :
        FailedAfterPost(e) =>
            \A k \in 1..Len(chat) :
                (chat[k].thread = task[e].mention.TimeStamp /\ chat[k].text.body = Thinking)
                    => chat[k].deleted

\* C18 (as claimed): once the context of a session is cancelled, none of the
\* tool calls of the turn that have not started yet is invoked on its backend.
C18_NoBackendCallAfterCancel ==
    [][\A e \in Events :
          (task[e].pc = "tools" /\ CtxDone(task[e].session))
              => task'[e].backendCalls = task[e].backendCalls]_vars

\* the goroutine of e is at a call to the provider, a tool backend or Slack
AtSuspensionPoint(e) ==
    task[e].pc \in {"post", "llm", "notice", "failed", "content", "deleting", "tools"}

\* the call the goroutine of e is at returns
CallReturns(e) ==
    \/ Post(e)
    \/ CreateMessage(e)
    \/ Notice(e)
    \/ Failed(e)
    \/ Content(e)
    \/ DeleteReturns(e)
    \/ ToolCall(e)

\* C20 (as claimed): every suspension point of the loop runs under the per-call
\* timeout, so a collaborator that never answers cannot stall a session: without
\* a cancellation the call the loop is at still returns.
C20_NoStallWithoutCancel ==
    \A e \in Events :
        (AtSuspensionPoint(e) /\ ~CtxDone(task[e].session)) => ENABLED CallReturns(e)

\* the delivery e reaches the session middleware while its key has a session
DuplicateArrives(e) ==
    /\ task[e].pc = "session"
    /\ task'[e].pc # "session"
    /\ Key(e) \in DOMAIN sessions

\* the duplicate is answered 202 at once; registry, contexts and chat stay as they are
DuplicateDropped ==
    \A e \in Events :
        DuplicateArrives(e) =>
            /\ task'[e].pc = "duplicate"
            /\ task'[e].status = StatusAccepted
            /\ sessions' = sessions
            /\ cancelled' = cancelled
            /\ chat' = chat

\* a dropped delivery has no goroutine: it never loaded a session, built no
\* history, called no collaborator, and nothing changes for it again
DuplicateInert ==
    \A e \in Events :
        task[e].pc = "duplicate" =>
            /\ task[e].session = 0
            /\ task[e].messages = << >>
            /\ task[e].posts = 0
            /\ task[e].backendCalls = 0
            /\ task[e].last = NoCall
            /\ task'[e] = task[e]

\* C21: a mention whose conversation key has a registered session is dropped as
\* a duplicate: the response is 202 with no effect, Execute is not started for
\* it, no chat message is posted for it, and the registered session is unchanged.
C21_DuplicateDropped == [][DuplicateDropped /\ DuplicateInert]_vars

\* C21 witness: a delivery was dropped while the registered session of its key
\* had already posted its placeholder, and that placeholder is the only message
C21_Witness ==
    \E d, e \in Events :
        /\ d # e
        /\ task[e].pc = "duplicate"
        /\ task[e].status = StatusAccepted
        /\ Key(d) = Key(e)
        /\ Key(d) \in DOMAIN sessions /\ sessions[Key(d)] = d
        /\ task[d].posts = 1
        /\ Len(chat) = 1

\* the request of e is answered and no goroutine of e is left to take a step
Settled(e) == task[e].pc \in {"rejected", "ignored", "duplicate", "done"}

\* C22 (as claimed): when the root context is cancelled, every session registered
\* at that moment is eventually removed from the registry: once the process is
\* interrupted and every delivery is settled, the registry is empty.
C22_RemovedAfterShutdown ==
    (rootCancelled /\ \A e \in Events : Settled(e)) => DOMAIN sessions = {}

\* the failures of the gateway and the message of each
GatewayFailures == {StatusUnauthorized, StatusForbidden, StatusTooManyRequests}

ErrorMessage(m, code) ==
    [channel |-> m.Channel, thread |-> m.TimeStamp,
     text |-> Formatted(m.User, ErrorText(code)), deleted |-> FALSE]

\* the step in which a middleware refuses the request of e with an *echo.HTTPError
FailStep(e) == task[e].pc # "error" /\ task'[e].pc = "error"

\* the step that answers the request of e with a failure
RejectStep(e) == task[e].pc # "rejected" /\ task'[e].pc = "rejected"

\* a refusal carries the code of its failure: too many requests from the limiter,
\* forbidden for a user missing from the allow-list, unauthorized for a failed
\* lookup; nothing is posted or answered in that step
FailureCoded ==
    \A e \in Events :
        FailStep(e) =>
            LET t == task'[e]
                m == t.mention
            IN /\ t.httpError \in GatewayFailures
               /\ t.httpError = StatusTooManyRequests <=> task[e].pc = "limiter"
               /\ t.httpError = StatusForbidden =>
                      (task[e].pc \in {"none", "lookup"} /\ m.User \notin allowedUsers)
               /\ t.httpError = StatusUnauthorized => task[e].pc = "lookup"
               /\ t.status = 0 /\ ~t.noRetry /\ t.posts = 0
               /\ chat' = chat

\* the failure is answered with its code and the no-retry mark, and one post of the
\* fixed text of that code goes to the thread of the mention
RejectionMapped ==
    \A e \in Events :
        /\ (task[e].pc = "error" /\ task'[e] # task[e]) => RejectStep(e)
        /\ RejectStep(e) =>
            LET t == task'[e]
                m == t.mention
            IN /\ task[e].pc = "error"
               /\ t.status = task[e].httpError
               /\ t.status \in GatewayFailures
               /\ t.noRetry
               /\ t.posts = 1
               /\ t.last.op = "post" /\ t.last.body = ErrorText(t.status)
               /\ chat' = IF t.last.ok THEN Append(chat, ErrorMessage(m, t.status)) ELSE chat

\* nothing more is done for an event that was refused, and only a refusal is marked
RejectionFinal ==
    \A e \in Events :
        /\ task[e].pc = "rejected" => task'[e] = task[e]
        /\ task[e].noRetry => task[e].pc = "rejected"

\* C23: each failure of a mention event outside the loop (unauthorized, forbidden,
\* rate-limited by the gateway) is mapped to one fixed chat message and one
\* status code: one message is posted to the thread for that event, the response
\* carries the code of the failure and is marked so that the event is not retried.
C23_RejectionMapped == [][FailureCoded /\ RejectionMapped /\ RejectionFinal]_vars

\* C23 witness: one delivery was refused as forbidden and one was denied by the
\* limiter, and the thread holds the two fixed messages
C23_Witness ==
    \E d, e \in Events :
        /\ task[d].pc = "rejected" /\ task[d].status = StatusForbidden
        /\ task[e].pc = "rejected" /\ task[e].status = StatusTooManyRequests
        /\ task[d].noRetry /\ task[e].noRetry
        /\ \E i, j \in 1..Len(chat) :
              /\ chat[i] = ErrorMessage(task[d].mention, StatusForbidden)
              /\ chat[j] = ErrorMessage(task[e].mention, StatusTooManyRequests)

\* the post of the placeholder of e fails
PostFails(e) ==
    /\ task[e].pc = "post"
    /\ task'[e].last # task[e].last \/ task'[e].pc # "post"
    /\ ~task'[e].last.ok

\* the failed post is the one post of the invocation, and the invocation returns
\* its error with the history, the locals and the thread as they were
PostErrorReturned ==
    \A e \in Events :
        PostFails(e) =>
            /\ task'[e].pc = "select"
            /\ task'[e].ret = SlackError
            /\ task'[e].last.op = "post"
            /\ task'[e].posts = task[e].posts + 1
            /\ task'[e].messages = task[e].messages
            /\ task'[e].backendCalls = task[e].backendCalls
            /\ task'[e].loc = task[e].loc
            /\ task'[e].depth = task[e].depth
            /\ chat' = chat

\* once Execute has returned, the goroutine calls no collaborator and keeps the
\* error and the history
QuietAfterReturn ==
    \A e \in Events :
        Returned(e) =>
            /\ task'[e].last = task[e].last
            /\ task'[e].ret = task[e].ret
            /\ task'[e].posts = task[e].posts
            /\ task'[e].messages = task[e].messages
            /\ task'[e].backendCalls = task[e].backendCalls
            /\ task'[e].loc = task[e].loc

\* C24: if posting the placeholder fails, that invocation of the loop returns the
\* post error at once: the post is not retried, the provider is not called, no
\* tool is dispatched and no history entry is appended.
C24_PostErrorReturned == [][PostErrorReturned /\ QuietAfterReturn]_vars

\* C24 witness: Slack refused the placeholder of a recursive invocation while the
\* context was live, and Execute has returned that error
C24_Witness ==
    \E e \in Events :
        /\ task[e].pc = "select"
        /\ task[e].depth > 0
        /\ ~CtxDone(task[e].session)
        /\ task[e].last.op = "post" /\ ~task[e].last.ok
        /\ task[e].ret = SlackError

\* C25 (as claimed): when a retry after a rate-limited error is about to wait,
\* the duration shown in the waiting message written to the placeholder equals
\* the delay that is waited before the next attempt.
C25_ShownDelayIsWaited ==
    \A e \in Events :
        LET t == task[e]
            l == t.loc
        IN (t.pc = "sleep" /\ RateLimited(l.errorLog[l.n + 1]) /\ t.last.op = "update")
              => t.last.body = WaitingMessage(l.delay)

\* the place of a program point in one iteration of execute: the prompt check of
\* Execute, the post, the provider step, the model's text, the tool calls
Phase(pc) ==
    IF pc = "Execute" THEN 0
    ELSE IF pc = "post" THEN 1
    ELSE IF pc \in {"llm", "notice", "sleep", "failed"} THEN 2
    ELSE IF pc \in {"content", "deleting"} THEN 3
    ELSE 4

\* a step of the goroutine of e within one iteration of execute
SameIteration(e) ==
    /\ InLoop(e) /\ InLoop(e)'
    /\ task'[e] # task[e]
    /\ task'[e].depth = task[e].depth

\* the step that starts a recursive call for e
RecursionStep(e) == InLoop(e) /\ task'[e].depth # task[e].depth

\* one step is a step of one goroutine, and makes at most the one call it records
OneCallAtATime ==
    /\ \A d, e \in Events : (task'[d] # task[d] /\ task'[e] # task[e]) => d = e
    /\ chat' # chat =>
          \E e \in Events :
              /\ task'[e].last # task[e].last \/ task'[e].posts # task[e].posts
              /\ task'[e].last.op \in {"post", "update", "delete"}
              /\ task'[e].backendCalls = task[e].backendCalls

\* within an iteration the goroutine only moves forward: once a tool call of the
\* turn is being made, no provider call of that turn follows, and a tool call is
\* made only on the message the provider has returned
ProviderBeforeTools ==
    \A e \in Events :
        /\ SameIteration(e) => Phase(task'[e].pc) >= Phase(task[e].pc)
        /\ (InLoop(e) /\ task[e].pc = "llm") =>
               (task[e].loc.i = 0 /\ task[e].loc.toolResults = << >>
                   /\ task[e].loc.message = NoMessage)
        /\ task'[e].backendCalls # task[e].backendCalls =>
               (task[e].pc = "tools" /\ task[e].loc.message # NoMessage
                   /\ task'[e].backendCalls = task[e].backendCalls + 1)

\* messages are only added to the thread, and a message that is there is changed
\* only by the one goroutine that holds its id
OneWriter ==
    /\ Len(chat') >= Len(chat)
    /\ \A k \in 1..Len(chat) :
          chat'[k] # chat[k] =>
              \E e \in Events :
                  /\ InLoop(e) /\ task[e].loc.messageID = k
                  /\ task'[e] # task[e]
                  /\ \A d \in Events \ {e} : InLoop(d) => task[d].loc.messageID # k

\* the recursive call is made by the step that completes the last tool call of
\* the turn, and it starts at the post with fresh locals
RecursionAfterTools ==
    \A e \in Events :
        RecursionStep(e) =>
            /\ task[e].pc = "tools"
            /\ task[e].loc.i = Len(task[e].loc.message.toolCalls)
            /\ task'[e].depth = task[e].depth + 1
            /\ task'[e].pc = "post"
            /\ task'[e].loc = FreshLocals

\* C26: within one session the loop is strictly sequential: at most one provider,
\* tool or chat call is in flight at a time, every provider call of a turn
\* precedes every tool call of that turn, posts and updates happen in the order
\* the loop produces them with no concurrent writer to the placeholder, and a
\* recursive continuation starts only after the model call and all tool calls of
\* the turn have completed.
C26_StrictlySequential ==
    [][OneCallAtATime /\ ProviderBeforeTools /\ OneWriter /\ RecursionAfterTools]_vars

\* C26 witness: the provider is being called in a recursive invocation that was
\* started after the two tool calls of the turn before it were made
C26_Witness ==
    \E e \in Events :
        /\ task[e].pc = "llm"
        /\ task[e].depth = 1
        /\ task[e].backendCalls = 2
        /\ task[e].posts = 2

\* the entry Execute builds from the prompt of the mention of e
UserEntry(e) ==
    HistoryMessage("user", << TextBlock(promptFromMention(task[e].mention.Text)) >>)

\* the history of an execution that has passed the prompt check starts with the
\* entry of its own prompt, which is its only user entry
StartsWithPrompt ==
    \A e \in Events :
        LET h == task[e].messages
        IN /\ (InLoop(e) /\ task[e].pc # "Execute") => Len(h) >= 1
           /\ Len(h) >= 1 =>
                 /\ h[1] = UserEntry(e)
                 /\ \A k \in 2..Len(h) : h[k].Role # "user"

\* the history a recursive call gets is the caller's history with the entries of
\* the caller's own turn behind it
RecursionExtends ==
    \A e \in Events :
        RecursionStep(e) =>
            /\ Len(task'[e].messages) > Len(task[e].messages)
            /\ \E k \in 1..(Len(task[e].loc.toolResults) + 1) : TurnAppends(e, k)

\* a history changes only in a step of its own goroutine, which keeps what is in
\* it, and that step leaves every other history as it is
HistoryOwn ==
    \A e \in Events :
        /\ Len(task'[e].messages) >= Len(task[e].messages)
        /\ \A k \in 1..Len(task[e].messages) : task'[e].messages[k] = task[e].messages[k]
        /\ task'[e].messages # task[e].messages =>
              /\ task[e].pc \in {"Execute", "content", "deleting", "tools"}
              /\ \A d \in Events \ {e} : task'[d] = task[d]

\* C27: history is append-only within one execution and never shared across
\* sessions: the history passed to each recursive call has the history of the
\* calling iteration as a prefix, starting with the single user entry carrying
\* the prompt, and no operation of one session changes the history of another.
C27_HistoryAppendOnly == []StartsWithPrompt /\ [][RecursionExtends /\ HistoryOwn]_vars

\* C27 witness: two conversations are in their loops at once, one in a recursive
\* call with the entries of its first turn behind its prompt, the other with
\* the entry of its prompt only
C27_Witness ==
    \E d, e \in Events :
        /\ Key(d) # Key(e)
        /\ InLoop(d) /\ task[d].depth = 1 /\ Len(task[d].messages) = 3
        /\ task[d].messages[1] = UserEntry(d)
        /\ InLoop(e) /\ task[e].depth = 0 /\ task[e].messages = << UserEntry(e) >>

\* the step of e calls a backend, which answers without an error and without content
EmptySuccess(e) ==
    /\ ToolStep(e)
    /\ task'[e].backendCalls = task[e].backendCalls + 1
    /\ task'[e].last.op = "tool" /\ task'[e].last.ok
    /\ task'[e].got = << >>

\* the model-role blocks of the turn after a step of the loop over the tool calls
TurnBlocks(e) ==
    IF task'[e].pc = "tools"
    THEN task'[e].loc.messageContents
    ELSE task'[e].messages[Len(task[e].messages) + 1].Content

\* no tool_result for the call, its tool_use behind the blocks of the turn, and
\* no recursion when it is the only call of the turn
EmptyContentNoResult ==
    \A e \in Events :
        EmptySuccess(e) =>
            LET toolCall == CurrentToolCall(e)
                l == task[e].loc
                use == ToolUseBlock(toolCall.id, toolCall.name, jsonMarshal(toolCall.args).bytes)
            IN /\ NewResults(e) = 0
               /\ TurnBlocks(e) = Append(l.messageContents, use)
               /\ task'[e].pc # "tools" =>
                     task'[e].messages[Len(task[e].messages) + 1].Role = "assistant"
               /\ Len(l.message.toolCalls) = 1 =>
                     /\ task'[e].pc = "select"
                     /\ task'[e].ret = Nil
                     /\ task'[e].depth = task[e].depth
                     /\ Len(task'[e].messages) = Len(task[e].messages) + 1

\* C28: when a backend call succeeds with empty result content, no tool_result
\* block is emitted for that call, but its tool_use block is still appended to the
\* model-role history entry; if it is the only tool call of the turn the loop
\* does not recurse.
C28_EmptyContentNoResult == [][EmptyContentNoResult]_vars

\* C28 witness: the only tool call of the first turn was answered without content
\* under a live context, and Execute has returned nil with the tool_use in the
\* model entry and no tool entry
C28_Witness ==
    \E e \in Events :
        /\ task[e].pc = "select"
        /\ task[e].ret = Nil
        /\ task[e].depth = 0
        /\ ~CtxDone(task[e].session)
        /\ task[e].backendCalls = 1
        /\ task[e].last.op = "tool" /\ task[e].last.ok
        /\ task[e].got = << >>
        /\ Len(task[e].messages) = 2
        /\ \E b \in Range(task[e].messages[2].Content) :
              b.Type = "tool_use" /\ b.ID = task[e].last.id

\* the goroutine of e is inside execute, at any depth
InExecute(e) == InLoop(e) /\ task[e].pc # "Execute"

\* the step of e is the last one of an iteration of execute: the model's text when
\* the response has no tool call, else the last tool call
IterationEnds(e) ==
    /\ task'[e] # task[e]
    /\ \/ /\ task[e].pc \in {"content", "deleting"}
          /\ task'[e].pc # "deleting"
          /\ Len(task[e].loc.message.toolCalls) = 0
       \/ /\ task[e].pc = "tools"
          /\ task[e].loc.i = Len(task[e].loc.message.toolCalls)

\* the turn of e has a tool result once this step is made: one was collected
\* before, or this step calls a backend that answers with an error or with content
TurnHasResult(e) ==
    \/ Len(task[e].loc.toolResults) > 0
    \/ /\ task[e].pc = "tools"
       /\ task'[e].backendCalls = task[e].backendCalls + 1
       /\ ~task'[e].last.ok \/ task'[e].got # << >>

\* whatever the depth, an iteration that ends with a tool result calls execute again
RecursesAtAnyDepth ==
    \A e \in Events :
        (IterationEnds(e) /\ TurnHasResult(e)) =>
            /\ task'[e].pc = "post"
            /\ task'[e].depth = task[e].depth + 1

\* execute returns only from a failed post, from a failed provider step, or from
\* an iteration that ends without a tool result, and in each of these it returns
ReturnsOnlyWhenDone ==
    \A e \in Events :
        /\ (InExecute(e) /\ task'[e].pc = "select") =>
              \/ task[e].pc = "post" /\ ~task'[e].last.ok /\ task'[e].ret = SlackError
              \/ task[e].pc = "failed" /\ task'[e].ret # Nil
              \/ IterationEnds(e) /\ ~TurnHasResult(e) /\ task'[e].ret = Nil
        /\ (IterationEnds(e) /\ ~TurnHasResult(e)) => task'[e].pc = "select"
        /\ (task[e].pc = "failed" /\ task'[e] # task[e]) => task'[e].pc = "select"

\* C29: the loop has no bound on its recursion depth: as long as every model
\* response yields a tool result and no call fails it keeps recursing and never
\* ends by itself; it ends as soon as a response yields no tool result, or a
\* placeholder post or the provider step fails.
C29_NoDepthBound == [][RecursesAtAnyDepth /\ ReturnsOnlyWhenDone]_vars

\* C29 witness: the loop is two levels deep, after two turns with a tool result each
C29_Witness ==
    \E e \in Events :
        /\ InExecute(e)
        /\ task[e].depth = 2
        /\ task[e].backendCalls = 2
        /\ ~CtxDone(task[e].session)

\* two deliveries belong to the same conversation: channel, thread and user agree
SameConversation(d, e) ==
    /\ task[d].mention.Channel = task[e].mention.Channel
    /\ task[d].mention.TimeStamp = task[e].mention.TimeStamp
    /\ task[d].mention.User = task[e].mention.User

\* the goroutine of d waits: for Slack's answer to a delete, or in the backoff of
\* the retry policy
Blocked(d) == task[d].pc \in {"deleting", "sleep"}

\* the next step of the delivery of e, from the request to the return of Execute,
\* can be taken
CanStep(e) ==
    /\ (task[e].pc = "none" /\ \A d \in Events : d < e => task[d].pc # "none")
          => ENABLED Auth(e)
    /\ task[e].pc = "lookup" => ENABLED GetUserInfo(e)
    /\ task[e].pc = "session" => ENABLED SessionMiddleware(e)
    /\ task[e].pc = "limiter" => ENABLED RateLimiter(e)
    /\ task[e].pc = "go" => ENABLED Load(e)
    /\ task[e].pc = "Execute" => ENABLED Execute(e)
    /\ task[e].pc = "post" => ENABLED Post(e)
    /\ task[e].pc = "llm" => ENABLED CreateMessage(e)
    /\ task[e].pc = "failed" => ENABLED Failed(e)
    /\ task[e].pc = "content" => ENABLED Content(e)
    /\ task[e].pc = "tools" => ENABLED ToolCall(e)

\* while one goroutine waits, every other delivery can take its next step, and a
\* goroutine inside Execute runs under the session its own delivery registered
NotHeldUp ==
    \A d, e \in Events :
        /\ (d # e /\ Blocked(d)) => CanStep(e)
        /\ InLoop(e) => task[e].session = e

\* a delivery is dropped as a duplicate only for a running delivery of its own
\* conversation; otherwise it is registered and gets its goroutine
OwnTask ==
    \A e \in Events :
        (task[e].pc = "session" /\ task'[e].pc # "session") =>
            IF \E d \in Events \ {e} :
                  /\ SameConversation(d, e)
                  /\ task[d].pc \notin {"none", "lookup", "session", "error", "rejected",
                                         "ignored", "duplicate", "done"}
            THEN task'[e].pc = "duplicate"
            ELSE /\ task'[e].pc = "limiter"
                 /\ \A d \in Events \ {e} : task'[d] = task[d]

\* C30: sessions with different conversation keys run in parallel: each accepted
\* mention gets its own task, and a session that is blocked at a suspension
\* point or waits in a retry backoff never prevents a mention with another key
\* from being registered, run and completed.
C30_ParallelSessions == []NotHeldUp /\ [][OwnTask]_vars

\* C30 witness: one goroutine waits for the answer to a delete under a live
\* context while Execute has returned nil for a mention in another thread
C30_Witness ==
    \E d, e \in Events :
        /\ ~SameConversation(d, e)
        /\ task[d].pc = "deleting"
        /\ ~CtxDone(task[d].session)
        /\ task[e].pc = "select"
        /\ task[e].ret = Nil
        /\ task[e].posts >= 1

\* entry j of the history of e holds a tool_use block that no later entry answers
\* with a tool_result of the same id
Unanswered(e, j) ==
    LET h == task[e].messages
    IN \E b \in Range(h[j].Content) :
          /\ b.Type = "tool_use"
          /\ ~\E k \in (j + 1)..Len(h) :
                  \E r \in Range(h[k].Content) :
                      r.Type = "tool_result" /\ r.ToolUseID = b.ID

\* C31 (as claimed): in every history handed to the model provider, each tool_use
\* block has a tool_result entry with the same id later in that history, also
\* when a turn mixes tool calls that produce a result with calls that are
\* skipped or return empty content.
C31_ToolUseAnswered ==
    \A e \in Events :
        task[e].pc = "llm" =>
            \A j \in 1..Len(task[e].messages) : ~Unanswered(e, j)

\* the request of e was denied by the rate limiter
Denied(e) == task[e].pc = "rejected" /\ task[e].status = StatusTooManyRequests

\* C32 (as claimed): a mention that the gateway rate limiter rejects leaves no
\* session registered for its conversation key, so a later delivery of the same
\* mention is not dropped as a duplicate.
C32_DeniedLeavesNoSession ==
    \A e \in Events :
        Denied(e) =>
            /\ ~(Key(e) \in DOMAIN sessions /\ sessions[Key(e)] = e)
            /\ \A d \in Events :
                  (d # e /\ task[d].mention = task[e].mention) => task[d].pc # "duplicate"

\* C33 (as claimed): after Execute has returned for a mention, the goroutine that
\* ran it cancels the context of the session and ends, without waiting for the
\* root context: while the root context is live it can leave its select, and a
\* goroutine that has ended has called session.cancel().
C33_CancelsAndEnds ==
    \A e \in Events :
        /\ (task[e].pc = "select" /\ ~rootCancelled) => ENABLED Select(e)
        /\ task[e].pc = "done" => task[e].session \in cancelled

\* the step of e makes a chat update or a chat delete
ChatWrite(e) ==
    /\ task'[e].last # task[e].last
    /\ task'[e].last.op \in {"update", "delete"}

\* C34 (as claimed): within one iteration every chat update and the chat delete
\* target the message id of the placeholder that the iteration posted, also after
\* an earlier update call of the iteration has failed.
C34_WritesTargetPlaceholder ==
    [][\A e \in Events :
          ChatWrite(e) => task'[e].last.id = task[e].loc.placeholder]_vars

\* the goroutine of e leaves the wait between two provider attempts while the
\* context of its session is done
WaitEndsCancelled(e) ==
    /\ task[e].pc = "sleep"
    /\ CtxDone(task[e].session)
    /\ task'[e] # task[e]

\* C35 (as claimed): if the session context is cancelled while the retry policy
\* waits between two provider attempts, the wait ends without running its full
\* delay and no further provider attempt is made.
C35_WaitEndsOnCancel ==
    [][\A e \in Events :
          WaitEndsCancelled(e) =>
              /\ task'[e].last.op # "sleep"
              /\ task'[e].pc # "llm"]_vars

\* the step of e makes a chat update or a chat delete that fails
ChatWriteFails(e) == ChatWrite(e) /\ ~task'[e].last.ok

\* a failed update or delete changes nothing in the course of the iteration: the
\* wait follows the waiting message, the provider's error is returned after the
\* failure glyph, and the loop over the tool calls follows the model's text
WriteFailureAbsorbed ==
    \A e \in Events :
        ChatWriteFails(e) =>
            /\ task[e].pc \in {"notice", "failed", "content", "deleting"}
            /\ task[e].pc = "notice" => (task'[e].pc = "sleep" /\ task'[e].ret = Nil)
            /\ task[e].pc = "failed" =>
                  /\ task'[e].pc = "select"
                  /\ task'[e].ret = RetryError(task[e].loc.errorLog)
            /\ task[e].pc \in {"content", "deleting"} =>
                  /\ task'[e].ret = Nil
                  /\ IF Len(task[e].loc.message.toolCalls) > 0
                     THEN task'[e].pc = "tools" /\ task'[e].loc.i = 1
                     ELSE /\ task'[e].pc = "select"
                          /\ Len(task'[e].messages) = Len(task[e].messages) + 1

\* an execution that has posted returns nil, the error of a failed post, or the
\* error of the provider step
ErrorOnlyFromPostOrProvider ==
    \A e \in Events :
        (Returned(e) /\ task[e].posts >= 1) =>
            IF task[e].ret = Nil THEN TRUE
            ELSE IF task[e].ret = SlackError
            THEN task[e].last.op = "post" /\ ~task[e].last.ok
            ELSE /\ task[e].ret = RetryError(task[e].loc.errorLog)
                 /\ \E k \in 1..Attempts : task[e].loc.errorLog[k] # Nil
                 /\ task[e].last.op = "update" /\ task[e].last.body = FailureGlyph

\* C36: once the placeholder is posted, a failure of a chat update or delete
\* never makes execute return an error and never stops the iteration: Execute
\* returns an error only when a placeholder post or the provider step fails, and
\* none otherwise, even if the model's text was never delivered to the thread.
C36_WriteFailureAbsorbed == []ErrorOnlyFromPostOrProvider /\ [][WriteFailureAbsorbed]_vars

\* C36 witness: Slack refused the update with the model's text under a live
\* context, the placeholder still shows the thinking text, and Execute returned nil
C36_Witness ==
    \E e \in Events :
        /\ task[e].pc = "select"
        /\ task[e].ret = Nil
        /\ task[e].depth = 0
        /\ ~CtxDone(task[e].session)
        /\ task[e].last.op = "update" /\ ~task[e].last.ok
        /\ task[e].last.body = <<"txt">>
        /\ \E k \in 1..Len(chat) : chat[k].text.body = Thinking /\ ~chat[k].deleted

\* the request of e was turned away by NewAuth: the lookup of its user failed, the
\* user is a bot or an app user, or the user is missing from the allow-list
TurnedAway(e) ==
    \/ task[e].pc = "ignored"
    \/ /\ task[e].pc \in {"error", "rejected"}
       /\ task[e].httpError \in {StatusUnauthorized, StatusForbidden}

\* the delivery e has registered a session or got past the session middleware
Admitted(e) ==
    \/ e \in Range(sessions)
    \/ task[e].session # 0
    \/ task[e].pc \notin {"none", "lookup", "session", "error", "rejected", "ignored",
                           "duplicate"}

\* who is turned away is never admitted, and who is admitted is a user of the
\* allow-list who is neither a bot nor an app user
OnlyAllowedAdmitted ==
    \A e \in Events :
        /\ TurnedAway(e) =>
              (~Admitted(e) /\ task[e].prompt = << >> /\ task[e].messages = << >>)
        /\ ((IsBot(task[e].mention.User) \/ task[e].mention.User \notin allowedUsers)
                /\ task[e].pc \notin {"none", "lookup"}) => TurnedAway(e)
        /\ Admitted(e) =>
              (task[e].mention.User \in allowedUsers /\ ~IsBot(task[e].mention.User))

\* a delivery that was turned away gets its answer and nothing more, and no step
\* registers a session in its name
TurnedAwayFinal ==
    \A e \in Events :
        TurnedAway(e) =>
            /\ task'[e].pc \in {task[e].pc, "rejected"}
            /\ task'[e].pc = "ignored" => task'[e] = task[e]
            /\ task'[e].httpError = task[e].httpError
            /\ task'[e].session = 0 /\ task'[e].prompt = << >> /\ task'[e].messages = << >>
            /\ e \notin Range(sessions')

\* C37: a mention whose user fails the identity lookup, is a bot or app user, or
\* is missing from the non-empty allow-list never registers a session and never
\* reaches Execute, in any order of arrival of events.
C37_OnlyAllowedAdmitted == []OnlyAllowedAdmitted /\ [][TurnedAwayFinal]_vars

\* C37 witness: while the session of an allowed user is registered and its loop
\* runs, a mention of a user missing from the allow-list was refused, and the
\* registry holds the one session
C37_Witness ==
    \E d, e \in Events :
        /\ InLoop(d) /\ Key(d) \in DOMAIN sessions /\ sessions[Key(d)] = d
        /\ task[e].pc = "rejected" /\ task[e].status = StatusForbidden
        /\ task[e].mention.User \notin allowedUsers
        /\ DOMAIN sessions = {Key(d)}

\* from the registration to the lookup of the goroutine the session of e is the
\* one registered under its key, and no goroutine has left by the missing-session exit
LookupFinds ==
    \A e \in Events :
        /\ task[e].pc \in {"limiter", "go"} =>
              (Key(e) \in DOMAIN sessions /\ sessions[Key(e)] = e)
        /\ task[e].pc # "missing"
        /\ task[e].session # 0 => task[e].session = e

\* a session leaves the registry only in the last step of the goroutine that
\* runs under it
RemovedByOwner ==
    \A k \in DOMAIN sessions :
        k \notin DOMAIN sessions' =>
            \E d \in Events :
                /\ sessions[k] = d
                /\ task[d].session = d
                /\ task[d].pc = "select" /\ task'[d].pc = "done"

\* C38: the goroutine the handler starts for a mention that passed the session
\* middleware always finds the session registered under its key: nothing removes
\* that session between its registration and the lookup, so the missing-session
\* exit is never taken for such an event.
C38_LookupFinds == []LookupFinds /\ [][RemovedByOwner]_vars

\* C38 witness: the session of a conversation was removed when its goroutine
\* ended, the mention was delivered again and registered anew, and the new
\* goroutine found its own session, while the other has ended
C38_Witness ==
    \E d, e \in Events :
        /\ d # e
        /\ SameConversation(d, e)
        /\ task[d].pc = "done"
        /\ InLoop(e)
        /\ task[e].session = e
        /\ Key(e) \in DOMAIN sessions /\ sessions[Key(e)] = e


(***************************************************************************)
(* The registry key is injective.                                          *)
(***************************************************************************)
\* the (channel, timestamp, user) tuple of the mention that e delivered
Tuple(e) == <<task[e].mention.Channel, task[e].mention.TimeStamp, task[e].mention.User>>

\* e has been through the session middleware
Keyed(e) == task[e].pc \notin {"none", "lookup", "session", "error", "rejected", "ignored"}

\* C39 (as claimed): sessionKey is injective on (channel, timestamp, user) tuples:
\* two deliveries whose mentions have the same key have the same tuple, so a
\* delivery is dropped as a duplicate only when the session registered under its
\* key belongs to a mention of its own conversation
C39_KeyInjective ==
    \A d, e \in Events :
        (Keyed(d) /\ Keyed(e) /\ Key(d) = Key(e)) =>
            /\ Tuple(d) = Tuple(e)
            /\ SameConversation(d, e)

====
